---- MODULE Spec2Model ----
(***************************************************************************)
(* usfm2osis: the conversion pipeline of ConvertToOSIS (convert.py), and   *)
(* the sort keys of sort.py.                                               *)
(*                                                                         *)
(* A text is a sequence of lexemes.  A lexeme is a string standing for the *)
(* characters it spells: a directive ("\\c"), one blank (" "), one line    *)
(* break ("\n"), one digit, one punctuation character, a word, one piece   *)
(* of an emitted tag ("<chapter osisID=", "\"", "/>"), or one private-use  *)
(* code point ("U+FDD0" is the single character U+FDD0).  The text is the  *)
(* concatenation of its lexemes.  Every regular expression of the source   *)
(* is translated to a scan over lexemes that matches where the expression  *)
(* matches on the characters.                                              *)
(***************************************************************************)
EXTENDS Integers, Sequences, FiniteSets, TLC

VARIABLES
    sFile,      \* ConvertToOSIS: the contents of the file, as it is on disk
    override,   \* ConvertToOSIS: the keyword argument encoding as passed
                \* ("": not given)
    encoding,   \* ConvertToOSIS: the local variable encoding
    osis,       \* ConvertToOSIS: the text
    pc,         \* ConvertToOSIS: the position in the series of calls
    calls,      \* the calls of passes made so far
    decodes,    \* the encodings the file has been decoded with, in order
    warnings,   \* the number of warnings printed
    raised,     \* the exception that has left ConvertToOSIS ("": none)
    result,     \* the text ConvertToOSIS returns
    python,     \* sort: the major version of the interpreter
    order,      \* sort: the key function of the run ("": no run)
    names,      \* sort: the list being sorted
    keys,       \* sort: the keys computed so far, one for each item
    counter,    \* sort: key_supplied.counter (0: not set yet)
    sorted,     \* sort: what sorted() has returned
    runs,       \* sort: the number of runs started
    threads     \* sort: the threads that sort with key_supplied at the same
                \* time, for each of them its list, the keys it has got,
                \* its position in key_supplied and its operand stack

convertVars ==
    <<sFile, override, encoding, osis, pc, calls, decodes, warnings, raised, result>>

sortVars == <<python, order, names, keys, counter, sorted, runs, threads>>

vars == <<convertVars, sortVars>>

----------------------------------------------------------------------------
(* Lexeme classes (the character classes the regular expressions use).     *)

NonChars ==
    {"U+FDD0", "U+FDD1", "U+FDD2", "U+FDD3", "U+FDD4", "U+FDD5", "U+FDD6",
     "U+FDD7", "U+FDD8", "U+FDD9", "U+FDDA", "U+FDDB", "U+FDDC", "U+FDDD",
     "U+FDDE", "U+FDDF", "U+FDE0", "U+FDE1", "U+FDE2", "U+FDE3", "U+FDE4",
     "U+FDE5", "U+FDE6", "U+FDE7", "U+FDE8", "U+FDE9", "U+FDEA", "U+FDEB",
     "U+FDEC", "U+FDED", "U+FDEE", "U+FDEF"}

Directives == {"\\id", "\\c", "\\cp", "\\v", "\\p", "\\is", "\\is1", "\\is2",
               "\\is3", "\\is4", "\\is5", "\\ide", "\\qm6", "\\uu", "\\f",
               "\\ft", "\\fp", "\\f*", "\\fig", "\\fig*", "\\ca",
               "\\ca*", "\\va", "\\va*", "\\q", "\\q1", "\\q2", "\\b",
               "\\m", "\\cls", "\\add", "\\wj", "\\nd", "\\pn", "\\qt",
               "\\sig", "\\ord", "\\tl", "\\bk", "\\k", "\\dc", "\\sls",
               "\\add*", "\\wj*", "\\nd*", "\\pn*", "\\qt*", "\\sig*",
               "\\ord*", "\\tl*", "\\bk*", "\\k*", "\\dc*", "\\sls*"}

\* the directives that end with '*'
ClosingDirectives ==
    {"\\f*", "\\fig*", "\\ca*", "\\va*", "\\add*", "\\wj*", "\\nd*", "\\pn*",
     "\\qt*", "\\sig*", "\\ord*", "\\tl*", "\\bk*", "\\k*", "\\dc*", "\\sls*"}

Digits == {"0", "1", "2", "3", "4", "5", "6", "7", "8", "9"}

Whitespace == {" ", "\n", "\r"}

IsSpace(x) == x \in Whitespace

IsDigit(x) == x \in Digits

IsDirective(x) == x \in Directives

\* [A-Z0-9]{3}
BookCodes == {"GEN", "ZZZ"}

\* [^\\\s]: the lexeme starts with neither a backslash nor whitespace
IsPlain(x) == ~IsSpace(x) /\ ~IsDirective(x)

\* the words that start with the letter s
SWords == {"s"}

\* the text lexemes that start and end with a word character
Words == {"w", "A", "U+00E9", "U+00C3", "UTF-8", "latin1", "CP-1252", "utf8",
          "DESC", "FILE", "SIZE", "LOC", "COPY", "CAP", "REF"}
             \cup SWords

BookValues == {"Gen"}

\* the lexeme ends (starts) with a word character, for \b
\* the entity names: a word character first, ';' last
EntityNames == {"amp;", "lt;", "gt;"}

WordStarters == Digits \cup Words \cup BookCodes \cup BookValues \cup EntityNames

WordEnders ==
    (WordStarters \ EntityNames) \cup (Directives \ ClosingDirectives) \cup {"/1"}

EndsWord(x) == x \in WordEnders

StartsWord(x) == x \in WordStarters

\* \b between s[k-1] and s[k]
WordB(s, k) ==
    (k - 1 \in 1..Len(s) /\ EndsWord(s[k - 1])) # (k \in 1..Len(s) /\ StartsWord(s[k]))

\* the lexemes that spell a double quote or a full stop
QuoteOrDotLexemes ==
    {"\"", ".", "<div type=\"book\" osisID=", "</div type=\"book\">",
     "<p type=\"x-noindent\">", "<l level=\"1\">", "<l level=\"2\">",
     "<lb type=\"x-p\"/>", " src=\"", " size=\"", " rights=\"",
     "<reference type=\"annotateRef\">", "<transChange type=\"added\">",
     "<q who=\"Jesus\" marker=\"\">", "<seg type=\"otPassage\">",
     "<hi type=\"super\">", "<name type=\"x-workTitle\">",
     "<seg type=\"keyword\">", "<transChange type=\"added\" editions=\"dc\">"}

HasQuoteOrDot(x) == x \in QuoteOrDotLexemes

----------------------------------------------------------------------------
(* Sequence helpers and the re.sub driver.                                 *)

RECURSIVE Cat(_)
Cat(ss) ==
    IF Len(ss) = 0 THEN <<>>
    ELSE IF Len(ss) = 1 THEN ss[1]
    ELSE LET h == Len(ss) \div 2
         IN  Cat(SubSeq(ss, 1, h)) \o Cat(SubSeq(ss, h + 1, Len(ss)))

Slice(s, i, j) == IF j < i THEN <<>> ELSE SubSeq(s, i, j)

\* least j >= i with P(s, j), or 0
FirstFrom(P(_, _), s, i) ==
    IF \E j \in i..Len(s) : P(s, j)
    THEN CHOOSE j \in i..Len(s) : P(s, j) /\ \A m \in i..(j - 1) : ~P(s, m)
    ELSE 0

\* index after the longest run of lexemes of class C that starts at i
SkipWhile(C(_), s, i) ==
    CHOOSE n \in i..(Len(s) + 1) \cup {i} :
        (\A j \in i..(n - 1) : C(s[j])) /\ (n <= Len(s) => ~C(s[n]))

\* re.sub(pattern, repl, s): leftmost non-overlapping matches, left to
\* right.  M(s, i) is the index after the match that starts at i (0: no
\* match at i); R(s, i, e) is the replacement of the match s[i..e-1].
RECURSIVE ReSub(_, _, _, _)
ReSub(M(_, _), R(_, _, _), s, i) ==
    IF i > Len(s) THEN <<>>
    ELSE LET j == FirstFrom(LAMBDA u, p : M(u, p) > p, s, i)
         IN  IF j = 0 THEN Slice(s, i, Len(s))
             ELSE Slice(s, i, j - 1) \o R(s, j, M(s, j))
                  \o ReSub(M, R, s, M(s, j))

IsAt(s, p, x) == p <= Len(s) /\ s[p] = x

\* str.replace(old, new) for a one-lexeme old
Replace(s, old, new) ==
    Cat([k \in 1..Len(s) |-> IF s[k] = old THEN new ELSE <<s[k]>>])

----------------------------------------------------------------------------
(* cvt_preprocess                                                          *)

\* re.sub('\n\s*([^\\\s])', r' \1', osis): the pattern is no raw string, so
\* the class the expression receives is [^\\s], any character but a
\* backslash and the letter s.  After the line break and the longest run
\* of whitespace comes a character of the class, or else the run gives its
\* last character back to the class.
FoldM(s, i) ==
    IF s[i] # "\n" THEN 0
    ELSE LET j == SkipWhile(IsSpace, s, i + 1)
         IN  IF j <= Len(s) /\ ~IsDirective(s[j]) /\ s[j] \notin SWords
             THEN j + 1
             ELSE IF j > i + 1 THEN j ELSE 0

FoldR(s, i, e) == <<" ", s[e - 1]>>

\* re.sub('\s+\n', '\n', osis): the run of whitespace up to its last line
\* break, when at least one whitespace character precedes that break
LastNewline(s, i, k) ==
    LET N == {n \in (i + 1)..(k - 1) : s[n] = "\n"}
    IN  IF N = {} THEN 0 ELSE CHOOSE n \in N : \A m \in N : m <= n

TrimM(s, i) ==
    IF ~IsSpace(s[i]) THEN 0
    ELSE LET n == LastNewline(s, i, SkipWhile(IsSpace, s, i))
         IN  IF n = 0 THEN 0 ELSE n + 1

TrimR(s, i, e) == <<"\n">>

cvt_preprocess_ampLast(text, relaxed) ==
    LET folded  == ReSub(FoldM, FoldR, text, 1)
        lf      == Replace(folded, "\r", <<"\n">>)
        trimmed == ReSub(TrimM, TrimR, lf, 1)
        lt      == Replace(trimmed, "<", <<"&", "lt;">>)
        gt      == Replace(lt, ">", <<"&", "gt;">>)
    IN  Replace(gt, "&", <<"&", "amp;">>)

cvt_preprocess(text, relaxed) ==
    LET folded  == ReSub(FoldM, FoldR, text, 1)
        lf      == Replace(folded, "\r", <<"\n">>)
        trimmed == ReSub(TrimM, TrimR, lf, 1)
        amp     == Replace(trimmed, "&", <<"&", "amp;">>)
        lt      == Replace(amp, "<", <<"&", "lt;">>)
    IN  Replace(lt, ">", <<"&", "gt;">>)

----------------------------------------------------------------------------
(* cvt_relaxed_conformance_remaps: returns the text as it is unless        *)
(* relaxed_conformance is set; the remapped directives (\tr#, \pub, \toc,  *)
(* \pref, \maps, \cov, \spine, \pubinfo, \intro, \conc, \glo, \idx) are    *)
(* not lexemes of the modelled documents.                                  *)

cvt_relaxed_conformance_remaps(text, relaxed) == text

----------------------------------------------------------------------------
(* cvt_identification                                                      *)

BOOK_DICT == [b \in {"GEN"} |-> "Gen"]

\* \s*([^\\\n]*?)\n after the book code, \s* greedy with backtracking: the
\* line break that ends group 2, for \s* ending before p (p from hi down
\* to lo) and the start of group 2, or <<0, 0>>
RECURSIVE IdLineEnd(_, _, _)
IdLineEnd(s, p, lo) ==
    IF p < lo THEN <<0, 0>>
    ELSE LET n == SkipWhile(LAMBDA x : ~IsDirective(x) /\ x # "\n", s, p)
         IN  IF n <= Len(s) /\ s[n] = "\n" THEN <<p, n>>
             ELSE IdLineEnd(s, p - 1, lo)

\* r'\\id\s+([A-Z0-9]{3})\b\s*([^\\\n]*?)\n(.*)(?=\\id|$)' with re.DOTALL:
\* group 3 is greedy and runs to the end of the text
IdM(s, i) ==
    IF s[i] # "\\id" \/ i = Len(s) \/ ~IsSpace(s[i + 1]) THEN 0
    ELSE LET j == SkipWhile(IsSpace, s, i + 1)
         IN  IF j > Len(s) \/ s[j] \notin BookCodes THEN 0
             ELSE IF IdLineEnd(s, SkipWhile(IsSpace, s, j + 1), j + 1)[2] = 0
                  THEN 0 ELSE Len(s) + 1

IdR(s, i, e) ==
    LET j  == SkipWhile(IsSpace, s, i + 1)
        pn == IdLineEnd(s, SkipWhile(IsSpace, s, j + 1), j + 1)
        g2 == Slice(s, pn[1], pn[2] - 1)
        g3 == Slice(s, pn[2] + 1, Len(s))
    IN  <<"U+FDD0", "<div type=\"book\" osisID=", "\"", BOOK_DICT[s[j]],
          "\"", ">", "\n">>
        \o (IF g2 # <<>> THEN <<"<!-- id comment - ">> \o g2 \o <<" -->", "\n">>
            ELSE <<>>)
        \o g3 \o <<"</div type=\"book\">", "U+FDD0", "\n">>

cvt_identification_raises_always(text) ==
    LET i == FirstFrom(LAMBDA s, p : IdM(s, p) > 0, text, 1)
    IN  IF i # 0 THEN "KeyError" ELSE ""

\* BOOK_DICT[m.group(1)] in the replacement: a code that is no key of
\* BOOK_DICT raises KeyError.  Group 3 of the first match runs to the end of
\* the text, so the replacement is called for the first \id line only.
cvt_identification_raises(text) ==
    LET i == FirstFrom(LAMBDA s, p : IdM(s, p) > 0, text, 1)
    IN  IF i # 0 /\ text[SkipWhile(IsSpace, text, i + 1)] \notin DOMAIN BOOK_DICT
        THEN "KeyError" ELSE ""

\* r'\\ide\b.*' + '\n' -> ''
IdeM(s, i) ==
    IF s[i] # "\\ide" \/ ~WordB(s, i + 1) THEN 0
    ELSE LET n == SkipWhile(LAMBDA x : x # "\n", s, i + 1)
         IN  IF n > Len(s) THEN 0 ELSE n + 1

\* \sts, \rem, \h and \toc# are not lexemes of the modelled documents
cvt_identification(text, relaxed) ==
    LET books == ReSub(IdM, IdR, text, 1)
    IN  IF Len(books) = 0 THEN books
        ELSE ReSub(IdeM, LAMBDA s, i, e : <<>>, books, 1)

----------------------------------------------------------------------------
(* cvt_introductions: \is# (the other introduction directives are not      *)
(* lexemes of the modelled documents)                                      *)

IsLevels == 1..5

IsDirectiveOf(l) ==
    CASE l = 1 -> {"\\is", "\\is1"} [] l = 2 -> {"\\is2"} [] l = 3 -> {"\\is3"}
      [] l = 4 -> {"\\is4"} [] l = 5 -> {"\\is5"}

IsMarker(l) == <<"U+FDE2", "U+FDE3", "U+FDE4", "U+FDE5", "U+FDE6">>[l]

\* the <div> each \is# line opens
IsOpenDiv(l) ==
    <<"<div type=\"section\" subType=\"x-introduction\">",
      "<div type=\"subSection\" subType=\"x-introduction\">",
      "<div type=\"x-subSubSection\" subType=\"x-introduction\">",
      "<div type=\"x-subSubSubSection\" subType=\"x-introduction\">",
      "<div type=\"x-subSubSubSubSection\" subType=\"x-introduction\">">>[l]

\* the <div> the closing expression of each level looks for
IsCloseDiv(l) ==
    <<"<div type=\"section\" subType=\"x-introduction\">",
      "<div type=\"subSection\" subType=\"x-introduction\">",
      "<div type=\"subSubSection\" subType=\"x-introduction\">",
      "<div type=\"subSubSubSection\" subType=\"x-introduction\">",
      "<div type=\"subSubSubSubSection\" subType=\"x-introduction\">">>[l]

\* r'\\is1?\s+(.+)' and r'\\is2\s+(.+)' ...: the rest of the line
IsOpenM(l, s, i) ==
    IF s[i] \notin IsDirectiveOf(l) \/ i = Len(s) \/ ~IsSpace(s[i + 1]) THEN 0
    ELSE LET j == SkipWhile(IsSpace, s, i + 1)
         IN  IF j > Len(s) THEN 0
             ELSE SkipWhile(LAMBDA x : x # "\n", s, j)

IsOpenR(l, s, i, e) ==
    <<IsMarker(l), IsOpenDiv(l), "<title>">>
    \o Slice(s, SkipWhile(IsSpace, s, i + 1), e - 1) \o <<"</title>">>

\* '(\uFDE2<div ...>[^\uFDE2]+)(?!\\c\b)': the greedy class stops at a marker
\* of this or a higher level or at the end of the text, where the negative
\* lookahead holds
IsCloseM(l, s, i) ==
    IF s[i] # IsMarker(l) \/ i + 1 >= Len(s) \/ s[i + 1] # IsCloseDiv(l) THEN 0
    ELSE IF l = 5 THEN i + 3   \* lazy [^...]+? at level 5: one lexeme
    ELSE SkipWhile(LAMBDA x : x \notin {IsMarker(k) : k \in 1..l}, s, i + 2)

IsCloseR(l, s, i, e) == Slice(s, i, e - 1) \o <<"</div>", IsMarker(l), "\n">>

RECURSIVE IsSections(_, _)
IsSections(text, l) ==
    IF l \notin IsLevels THEN text
    ELSE LET opened == ReSub(LAMBDA s, i : IsOpenM(l, s, i),
                             LAMBDA s, i, e : IsOpenR(l, s, i, e), text, 1)
             closed == ReSub(LAMBDA s, i : IsCloseM(l, s, i),
                             LAMBDA s, i, e : IsCloseR(l, s, i, e), opened, 1)
         IN  IsSections(closed, l + 1)

cvt_introductions(text, relaxed) == IsSections(text, 1)

----------------------------------------------------------------------------
(* cvt_titles: \ms#, \mr, \s#, \sr, \r, \rq, \d, \sp, \mt#, \mte# are not  *)
(* lexemes of the modelled documents, and no U+FDD5..U+FDDE is in them     *)

cvt_titles(text, relaxed) == text

----------------------------------------------------------------------------
(* cvt_chapters_and_verses                                                 *)

\* ([^\s]+)\b: the index after group 1, the longest run of non-blank lexemes
\* from j that ends at a word boundary, or 0
RECURSIVE BoundaryBack(_, _, _)
BoundaryBack(s, k, j) ==
    IF k <= j THEN 0
    ELSE IF WordB(s, k) THEN k ELSE BoundaryBack(s, k - 1, j)

NumberEnd(s, j) == BoundaryBack(s, SkipWhile(LAMBDA x : ~IsSpace(x), s, j), j)

\* (?=(\\c\s+|</div type="book"))
ChapLook(s, p) ==
    \/ s[p] = "\\c" /\ p < Len(s) /\ IsSpace(s[p + 1])
    \/ s[p] = "</div type=\"book\">"

\* r'\\c\s+([^\s]+)\b(.+?)(?=(\\c\s+|</div type="book"))' with re.DOTALL
ChapM(s, i) ==
    IF s[i] # "\\c" \/ i = Len(s) \/ ~IsSpace(s[i + 1]) THEN 0
    ELSE LET j == SkipWhile(IsSpace, s, i + 1)
             k == NumberEnd(s, j)
         IN  IF j > Len(s) \/ k = 0 \/ k > Len(s) THEN 0
             ELSE FirstFrom(ChapLook, s, k + 1)

ChapR(s, i, e) ==
    LET j  == SkipWhile(IsSpace, s, i + 1)
        k  == NumberEnd(s, j)
        g1 == Slice(s, j, k - 1)
        g2 == Slice(s, k, e - 1)
    IN  <<"U+FDD1", "<chapter osisID=", "\"", "$BOOK$", ".">> \o g1
        \o <<"\"", " sID=", "\"", "$BOOK$", ".">> \o g1 \o <<"\"", "/>">>
        \o g2
        \o <<"<chapter eID=", "\"", "$BOOK$", ".">> \o g1
        \o <<"\"", "/>", "U+FDD3", "\n">>

\* r'\\cp\s+(.+?)(?=(\\|\s))': the index after the match at c, or 0
CpM(s, c) ==
    IF s[c] # "\\cp" \/ c = Len(s) \/ ~IsSpace(s[c + 1]) THEN 0
    ELSE LET v == SkipWhile(IsSpace, s, c + 1)
             e == SkipWhile(LAMBDA x : ~IsSpace(x) /\ ~IsDirective(x), s, v + 1)
         IN  IF v > Len(s) \/ e > Len(s) THEN 0 ELSE e

CpValue(s, c) == Slice(s, SkipWhile(IsSpace, s, c + 1), CpM(s, c) - 1)

\* r'"\$BOOK\$\.([^"\.]+)"'
ChapIdM(s, i) ==
    IF i + 4 > Len(s) \/ s[i] # "\"" \/ s[i + 1] # "$BOOK$" \/ s[i + 2] # "." THEN 0
    ELSE LET k == SkipWhile(LAMBDA x : ~HasQuoteOrDot(x), s, i + 3)
         IN  IF k > i + 3 /\ k <= Len(s) /\ s[k] = "\"" THEN k + 1 ELSE 0

replace_chapter_number_unnumbered(ctext) ==
    ReSub(CpM, LAMBDA s, i, e : <<>>, ctext, 1)

\* r'\\ca\s+(.+?)\\ca\*', r'\\va\s+(.+?)\\va\*': the index after the match
\* that starts at i (0: no match) and group 1.  The whitespace is taken
\* greedily and gives its last character to the group when the closing
\* directive follows it; without re.DOTALL the group holds no line break.
Alt(open, close, dotall, s, i) ==
    LET a == SkipWhile(IsSpace, s, i + 1)
        g == IF IsAt(s, a, close) THEN a - 1 ELSE a
        e == FirstFrom(LAMBDA u, p : u[p] = close, s, g + 1)
    IN  IF s[i] # open \/ g <= i + 1 \/ e = 0
        THEN [end |-> 0, group |-> <<>>]
        ELSE IF ~dotall /\ \E n \in g..(e - 1) : s[n] = "\n"
        THEN [end |-> 0, group |-> <<>>]
        ELSE [end |-> e + 1, group |-> Slice(s, g, e - 1)]

\* r'(osisID="\$BOOK\$\.[^"\.]+)"', and the same with \$CHAP\$\. before the
\* class: the index after the match that starts at the lexeme that ends
\* with 'osisID=', or 0
OsisIdM(prefix, s, i) ==
    LET n == i + Len(prefix)
        k == SkipWhile(LAMBDA x : ~HasQuoteOrDot(x), s, n + 1)
    IN  IF s[i] \in {"<chapter osisID=", "<verse osisID="}
           /\ Slice(s, i + 1, n) = prefix /\ k > n + 1 /\ IsAt(s, k, "\"")
        THEN k + 1 ELSE 0

\* if ca: ... (if va: ...): the directive is deleted and its number is
\* appended to each osisID as a second identifier
AddAlternate(open, close, prefix, text) ==
    LET a == FirstFrom(LAMBDA s, i : Alt(open, close, FALSE, s, i).end > 0, text, 1)
    IN  IF a = 0 THEN text
        ELSE LET number  == Alt(open, close, FALSE, text, a).group
                 removed == ReSub(LAMBDA s, i : Alt(open, close, TRUE, s, i).end,
                                  LAMBDA s, i, e : <<>>, text, 1)
             IN  ReSub(LAMBDA s, i : OsisIdM(prefix, s, i),
                       LAMBDA s, i, e : Slice(s, i, e - 2) \o <<" ">>
                                        \o Tail(prefix) \o number \o <<"\"">>,
                       removed, 1)

replace_chapter_number(ctext) ==
    LET c  == FirstFrom(LAMBDA s, i : CpM(s, i) > 0, ctext, 1)
        cp == IF c = 0 THEN ctext
              ELSE ReSub(ChapIdM,
                         LAMBDA s, i, e : <<"\"", "$BOOK$", ".">>
                                          \o CpValue(ctext, c) \o <<"\"">>,
                         ReSub(CpM, LAMBDA s, i, e : <<>>, ctext, 1), 1)
    IN  IF Len(cp) = 0 THEN cp
        ELSE AddAlternate("\\ca", "\\ca*", <<"\"", "$BOOK$", ".">>, cp)

\* r'(<chapter [^<]+sID[^<]+/>.+?<chapter eID[^>]+/>)' with re.DOTALL
ChapSpanM(s, i) ==
    IF s[i] # "<chapter osisID=" THEN 0
    ELSE LET t == FirstFrom(LAMBDA u, p : u[p] = "/>", s, i)
             c == IF t = 0 THEN 0
                  ELSE FirstFrom(LAMBDA u, p : u[p] = "<chapter eID=", s, t + 1)
             z == IF c = 0 THEN 0 ELSE FirstFrom(LAMBDA u, p : u[p] = "/>", s, c)
         IN  IF z = 0 THEN 0 ELSE z + 1

VerseLook_pastChapterEnd(s, p) ==
    \/ s[p] = "\\v" /\ p < Len(s) /\ IsSpace(s[p + 1])
    \/ s[p] = "</div type=\"book\">"

\* (?=(\\v\s+|</div type="book"|<chapter eID))
VerseLook(s, p) ==
    \/ s[p] = "\\v" /\ p < Len(s) /\ IsSpace(s[p + 1])
    \/ s[p] = "</div type=\"book\">"
    \/ s[p] = "<chapter eID="

\* \s*(.+?)(?=...) from k: the blanks are taken greedily and given back
\* one by one until group 2, which has a character at least, is followed
\* by the lookahead; the index where group 2 starts, or 0
VerseTextStart(s, k) ==
    LET W == {w \in k..SkipWhile(IsSpace, s, k) :
                 w <= Len(s) /\ FirstFrom(VerseLook, s, w + 1) # 0}
    IN  IF W = {} THEN 0 ELSE CHOOSE w \in W : \A x \in W : x <= w

\* r'\\v\s+([^\s]+)\b\s*(.+?)(?=(\\v\s+|</div type="book"|<chapter eID))'
\* with re.DOTALL: a verse without text takes the line break as its text
\* when the lookahead follows it, and the lexemes up to the next lookahead
\* otherwise
VerseM(s, i) ==
    IF s[i] # "\\v" \/ i = Len(s) \/ ~IsSpace(s[i + 1]) THEN 0
    ELSE LET j == SkipWhile(IsSpace, s, i + 1)
             k == NumberEnd(s, j)
             w == IF k = 0 THEN 0 ELSE VerseTextStart(s, k)
         IN  IF j > Len(s) \/ k = 0 \/ w = 0 THEN 0
             ELSE FirstFrom(VerseLook, s, w + 1)

VerseR(s, i, e) ==
    LET j  == SkipWhile(IsSpace, s, i + 1)
        k  == NumberEnd(s, j)
        g1 == Slice(s, j, k - 1)
        g2 == Slice(s, VerseTextStart(s, k), e - 1)
    IN  <<"U+FDD2", "<verse osisID=", "\"", "$BOOK$", ".", "$CHAP$", ".">> \o g1
        \o <<"\"", " sID=", "\"", "$BOOK$", ".", "$CHAP$", ".">> \o g1
        \o <<"\"", "/>">> \o g2
        \o <<"<verse eID=", "\"", "$BOOK$", ".", "$CHAP$", ".">> \o g1
        \o <<"\"", "/>", "U+FDD2", "\n">>

\* r'(<verse [^<]+sID[^<]+/>.+?<verse eID[^>]+/>)' with re.DOTALL
VerseSpanM(s, i) ==
    IF s[i] # "<verse osisID=" THEN 0
    ELSE LET t == FirstFrom(LAMBDA u, p : u[p] = "/>", s, i)
             c == IF t = 0 THEN 0
                  ELSE FirstFrom(LAMBDA u, p : u[p] = "<verse eID=", s, t + 1)
             z == IF c = 0 THEN 0 ELSE FirstFrom(LAMBDA u, p : u[p] = "/>", s, c)
         IN  IF z = 0 THEN 0 ELSE z + 1

\* \vp...\vp* is no lexeme of the modelled documents
replace_verse_number(vtext) ==
    AddAlternate("\\va", "\\va*", <<"\"", "$BOOK$", ".", "$CHAP$", ".">>, vtext)

\* \cl, \cd and \vp...\vp* are not lexemes of the modelled documents
cvt_chapters_and_verses(text, relaxed) ==
    LET chapters == ReSub(ChapM, ChapR, text, 1)
        numbered == ReSub(ChapSpanM,
                          LAMBDA s, i, e : replace_chapter_number(Slice(s, i, e - 1)),
                          chapters, 1)
        verses   == ReSub(VerseM, VerseR, numbered, 1)
    IN  IF Len(verses) = 0 THEN verses
        ELSE ReSub(VerseSpanM,
                   LAMBDA s, i, e : replace_verse_number(Slice(s, i, e - 1)),
                   verses, 1)

----------------------------------------------------------------------------
(* cvt_paragraphs: \p, \m, \cls and \b (the other paragraph directives    *)
(* and the list directives are not lexemes of the modelled documents)      *)

paragraphregex ==
    {"\\pc", "\\pr", "\\m", "\\pmo", "\\pm", "\\pmc", "\\pmr", "\\pi", "\\pi1",
     "\\pi2", "\\pi3", "\\pi4", "\\pi5", "\\mi", "\\nb"}

\* <(/?div|p|closer)\b
DivPCloserLexemes ==
    {"<div type=\"book\" osisID=", "</div type=\"book\">", "</div>", "<p>",
     "<p type=\"x-noindent\">", "<closer>"}
    \cup {IsOpenDiv(l) : l \in IsLevels}

IsDivPCloser(x) == x \in DivPCloserLexemes

ParEnders ==
    {"\\m", "\\im", "\\p", "\\ip", "\\lit", "\\cls", "\\tr"} \cup paragraphregex

\* (?=(\\(i?m|i?p|lit|cls|tr|p|...)\b|<chapter eID|<(/?div|p|closer)\b))
ParLook(s, p) ==
    \/ /\ s[p] \in ParEnders
       /\ WordB(s, p + 1)
    \/ s[p] = "<chapter eID="
    \/ IsDivPCloser(s[p])

\* r'\\p\s+(.*?)(?=...)' with re.DOTALL
ParM(s, i) ==
    IF s[i] # "\\p" \/ i = Len(s) \/ ~IsSpace(s[i + 1]) THEN 0
    ELSE FirstFrom(ParLook, s, SkipWhile(IsSpace, s, i + 1))

ParR(s, i, e) ==
    <<"U+FDD3", "<p>", "\n">> \o Slice(s, SkipWhile(IsSpace, s, i + 1), e - 1)
    \o <<"U+FDD3", "</p>", "\n">>

\* p_type, for the directives of paragraphregex that are lexemes: the start
\* tag '<p type="' + p_type[m.group(1)] + '">'
p_type == [d \in {"\\m"} |-> "<p type=\"x-noindent\">"]

\* r'\\(' + paragraphregex + r')\s+(.*?)(?=...)' with re.DOTALL
TypedParM(s, i) ==
    IF s[i] \notin DOMAIN p_type \/ i = Len(s) \/ ~IsSpace(s[i + 1]) THEN 0
    ELSE FirstFrom(ParLook, s, SkipWhile(IsSpace, s, i + 1))

TypedParR(s, i, e) ==
    <<"U+FDD3", p_type[s[i]], "\n">>
    \o Slice(s, SkipWhile(IsSpace, s, i + 1), e - 1)
    \o <<"U+FDD3", "</p>", "\n">>

\* (?=(\\(i?m|i?p|lit|cls|tr)\b|<chapter eID|<(/?div|p|closer)\b))
CloserLook(s, p) ==
    \/ /\ s[p] \in {"\\m", "\\im", "\\p", "\\ip", "\\lit", "\\cls", "\\tr"}
       /\ WordB(s, p + 1)
    \/ s[p] = "<chapter eID="
    \/ IsDivPCloser(s[p])

\* the expression under the comment '\cls_text...':
\* r'\\m\s+(.+?)(?=...)' with re.DOTALL.  The start of group 1, or 0: after
\* all the whitespace when the lookahead holds further on, else the last
\* whitespace character when there are two and the lookahead holds after it
CloserGroup(s, i) ==
    IF s[i] # "\\m" \/ i = Len(s) \/ ~IsSpace(s[i + 1]) THEN 0
    ELSE LET k == SkipWhile(IsSpace, s, i + 1)
         IN  IF k <= Len(s) /\ FirstFrom(CloserLook, s, k + 1) # 0 THEN k
             ELSE IF k > i + 2 /\ k <= Len(s) /\ CloserLook(s, k) THEN k - 1
             ELSE 0

CloserM(s, i) ==
    LET g == CloserGroup(s, i)
    IN  IF g = 0 THEN 0 ELSE FirstFrom(CloserLook, s, g + 1)

CloserR(s, i, e) ==
    <<"U+FDD3", "<closer>">> \o Slice(s, CloserGroup(s, i), e - 1)
    \o <<"U+FDD3", "</closer>", "\n">>

\* r'\\b\b\s?' -> '<lb type="x-p"/>'
BreakM(s, i) ==
    IF s[i] # "\\b" \/ ~WordB(s, i + 1) THEN 0
    ELSE IF i < Len(s) /\ IsSpace(s[i + 1]) THEN i + 2 ELSE i + 1

cvt_paragraphs(text, relaxed) ==
    LET p      == ReSub(ParM, ParR, text, 1)
        typed  == ReSub(TypedParM, TypedParR, p, 1)
        closer == ReSub(CloserM, CloserR, typed, 1)
    IN  ReSub(BreakM, LAMBDA s, i, e : <<"<lb type=\"x-p\"/>">>, closer, 1)

----------------------------------------------------------------------------
(* cvt_poetry: \q, \q1, \q2 and the line groups (\qa, \qac, \qs, \qr,     *)
(* \qc and \qm1..\qm5 are not lexemes of the modelled documents).  The      *)
(* passes after it whose directives are not lexemes of the modelled         *)
(* documents return the text as it is.                                     *)

\* the keys of qType
qType == {"\\qr", "\\qc", "\\qm", "\\qm1", "\\qm2", "\\qm3", "\\qm4", "\\qm5"}

\* the directives r'\\(qr|qc|qm\d)' matches, among the lexemes
QmDirectives == {"\\qm6"}

\* (?=([\uFDD0\uFDD1\uFDD3-\uFDDE]|\\(q\d?|fig)\b|<(l|lb|title|list|/?div)\b)):
\* the lexemes the lookahead holds at
\* [\uFDD0\uFDD1\uFDD3-\uFDDE]
ScopeMarkers ==
    {"U+FDD0", "U+FDD1", "U+FDD3", "U+FDD4", "U+FDD5", "U+FDD6", "U+FDD7",
     "U+FDD8", "U+FDD9", "U+FDDA", "U+FDDB", "U+FDDC", "U+FDDD", "U+FDDE"}

\* the start tags of the poetic lines: '<l level="' + r'\1' + '">'
LineOpen ==
    [d \in {"\\q", "\\q1", "\\q2"} |->
        IF d = "\\q2" THEN "<l level=\"2\">" ELSE "<l level=\"1\">"]

LineTags == {LineOpen[d] : d \in DOMAIN LineOpen}

PoetryEnders ==
    ScopeMarkers \cup LineTags
    \cup {"<div type=\"book\" osisID=", "</div type=\"book\">", "</div>",
          "<title>", "<lb type=\"x-p\"/>"}
    \cup {IsOpenDiv(l) : l \in IsLevels}

PoetryLook(s, p) ==
    \/ s[p] \in PoetryEnders
    \/ s[p] \in DOMAIN LineOpen \cup {"\\fig"} /\ WordB(s, p + 1)

\* r'\\(qr|qc|qm\d)\b\s*(.*?)(?=...)' with the replacement
\* '<l type="' + qType[m.group(1)] + '">...': a directive that the
\* expression matches and that is no key of qType raises KeyError
cvt_poetry_raises(text) ==
    IF \E i \in 1..Len(text) :
          /\ text[i] \in QmDirectives \ qType
          /\ WordB(text, i + 1)
          /\ FirstFrom(PoetryLook, text, i + 1) # 0
    THEN "KeyError" ELSE ""

\* r'\\q\b\s*(.*?)(?=...)' (ds: \q) and r'\\q(\d)\b\s*(.*?)(?=...)' (ds: \q1,
\* \q2), with re.DOTALL
LineM(ds, s, i) ==
    IF s[i] \notin ds \/ ~WordB(s, i + 1) THEN 0
    ELSE FirstFrom(PoetryLook, s, SkipWhile(IsSpace, s, i + 1))

LineR(s, i, e) ==
    <<LineOpen[s[i]]>> \o Slice(s, SkipWhile(IsSpace, s, i + 1), e - 1)
    \o <<"</l>">>

\* the expression of LineGroupM with a lazy class: up to the first </l>
LineGroupM_perLine(s, i) ==
    IF s[i] \notin LineTags THEN 0
    ELSE LET m == SkipWhile(LAMBDA x : x \notin ScopeMarkers, s, i + 1)
             E == {e \in (i + 1)..(m - 1) : s[e] = "</l>"}
         IN  IF E = {} THEN 0 ELSE (CHOOSE e \in E : \A d \in E : e <= d) + 1

\* '(<l [^\uFDD0\uFDD1\uFDD3-\uFDDE]+</l>)' with re.DOTALL: the class is
\* greedy, so up to the last </l> before the next scope marker
LineGroupM(s, i) ==
    IF s[i] \notin LineTags THEN 0
    ELSE LET m == SkipWhile(LAMBDA x : x \notin ScopeMarkers, s, i + 1)
             E == {e \in (i + 1)..(m - 1) : s[e] = "</l>"}
         IN  IF E = {} THEN 0 ELSE (CHOOSE e \in E : \A d \in E : d <= e) + 1

\* '(<lg>.+?</lg>)' with re.DOTALL, the replacement
\* m.group(1).replace('<lb type="x-p"/>', '</lg><lg>')
BreakInGroupM(s, i) ==
    IF s[i] # "<lg>" THEN 0
    ELSE LET e == FirstFrom(LAMBDA u, x : u[x] = "</lg>", s, i + 2)
         IN  IF e = 0 THEN 0 ELSE e + 1

BreakInGroupR(s, i, e) ==
    Replace(Slice(s, i, e - 1), "<lb type=\"x-p\"/>", <<"</lg>", "<lg>">>)

cvt_poetry(text, relaxed) ==
    LET q      == ReSub(LAMBDA s, i : LineM({"\\q"}, s, i), LineR, text, 1)
        qd     == ReSub(LAMBDA s, i : LineM({"\\q1", "\\q2"}, s, i), LineR, q, 1)
        closed == ReSub(LAMBDA s, i : IF s[i] = "\n" /\ IsAt(s, i + 1, "</l>")
                                     THEN i + 2 ELSE 0,
                        LAMBDA s, i, e : <<"</l>", "\n">>, qd, 1)
        groups == ReSub(LineGroupM, LAMBDA s, i, e :
                            <<"<lg>">> \o Slice(s, i, e - 1) \o <<"</lg>">>,
                        closed, 1)
    IN  ReSub(BreakInGroupM, BreakInGroupR, groups, 1)

cvt_tables(text, relaxed) == text

\* the start tag of a note whose caller is '+'
NoteOpen == "<note placement=\"foot\">"

\* r'\\f\s+([^\s\\]+)?\s*(.+?)\s*\\f\*' at i, for a note whose text is not
\* empty: where the caller (0: none), the text and the \f* are
Foot(s, i) ==
    LET j == SkipWhile(IsSpace, s, i + 1)
        c == IF j <= Len(s) /\ IsPlain(s[j]) THEN j ELSE 0
        t == SkipWhile(IsSpace, s, IF c = 0 THEN j ELSE j + 1)
        e == FirstFrom(LAMBDA u, x : u[x] = "\\f*", s, t + 1)
    IN  IF s[i] = "\\f" /\ i < Len(s) /\ IsSpace(s[i + 1]) /\ e # 0
        THEN [caller |-> c, text |-> t, end |-> e]
        ELSE [caller |-> 0, text |-> 0, end |-> 0]

FootM(s, i) == IF Foot(s, i).end = 0 THEN 0 ELSE Foot(s, i).end + 1

\* the note of a caller '+'; the white space before \f* is not in group 2
FootR(s, i, e) ==
    LET P == {x \in Foot(s, i).text..(e - 2) : ~IsSpace(s[x])}
        z == CHOOSE x \in P : \A y \in P : y <= x
    IN  <<NoteOpen>> \o Slice(s, Foot(s, i).text, z) \o <<"U+FDDF", "</note>">>

\* ' n="' + m.group(1) + '"' in the replacement: a note without a caller
\* has no group 1, and the concatenation raises TypeError
cvt_footnotes_raises(text) ==
    IF \E i \in 1..Len(text) : FootM(text, i) > 0 /\ Foot(text, i).caller = 0
    THEN "TypeError" ELSE ""

\* process_note, for the directives \ft and \fp: the line breaks become
\* spaces, '\ft ' is deleted, '\fp text' becomes <p>text</p> up to the next
\* \fp or the end of the note, the text between the start tag of the note
\* and the first <p> becomes a paragraph, and U+FDDF is deleted
process_note(note) ==
    LET ft  == ReSub(LAMBDA s, i : IF s[i] = "\\ft" /\ i < Len(s) /\ IsSpace(s[i + 1])
                                   THEN i + 2 ELSE 0,
                     LAMBDA s, i, e : <<>>,
                     Replace(note, "\n", <<" ">>), 1)
        fpE(s, i) == LET n == FirstFrom(LAMBDA u, x : u[x] = "\\fp", s, i + 3)
                     IN  IF n = 0 THEN Len(s) + 1 ELSE n
        fp  == ReSub(LAMBDA s, i : IF s[i] = "\\fp" /\ i + 2 <= Len(s)
                                      /\ WordB(s, i + 1) /\ IsSpace(s[i + 1])
                                   THEN fpE(s, i) ELSE 0,
                     LAMBDA s, i, e : <<"<p>">> \o Slice(s, i + 2, e - 1) \o <<"</p>">>,
                     ft, 1)
        pE(s, i) == FirstFrom(LAMBDA u, x : u[x] = "<p>", s, i + 1)
        p   == ReSub(LAMBDA s, i : IF s[i] = NoteOpen /\ pE(s, i) # 0
                                   THEN pE(s, i) + 1 ELSE 0,
                     LAMBDA s, i, e : <<s[i], "<p>">> \o Slice(s, i + 1, e - 2)
                                          \o <<"</p>", "<p>">>,
                     fp, 1)
    IN  Replace(p, "U+FDDF", <<>>)

\* r'(<note\b[^>]*?>.*?</note>)' -> process_note(m.group(1))
NoteM(s, i) ==
    LET e == FirstFrom(LAMBDA u, x : u[x] = "</note>", s, i + 1)
    IN  IF s[i] = NoteOpen /\ e # 0 THEN e + 1 ELSE 0

NoteR(s, i, e) == process_note(Slice(s, i, e - 1))

\* \fe, \fm and the other directives of notes are not lexemes of the
\* modelled documents
cvt_footnotes(text, relaxed) ==
    LET notes == ReSub(FootM, FootR, text, 1)
    IN  IF Len(notes) = 0 THEN notes ELSE ReSub(NoteM, NoteR, notes, 1)

cvt_cross_references(text, relaxed) == text

\* the expressions r'\\add\s+(.+?)\\add\*' to r'\\k\s+(.+?)\\k\*' in the order
\* they are applied: the directive, its closing form, and the start tag and
\* the end tag of the replacement
special_texts ==
    <<<<"\\add", "\\add*", "<transChange type=\"added\">", "</transChange>">>,
      <<"\\wj", "\\wj*", "<q who=\"Jesus\" marker=\"\">", "</q>">>,
      <<"\\nd", "\\nd*", "<divineName>", "</divineName>">>,
      <<"\\pn", "\\pn*", "<name>", "</name>">>,
      <<"\\qt", "\\qt*", "<seg type=\"otPassage\">", "</seg>">>,
      <<"\\sig", "\\sig*", "<signed>", "</signed>">>,
      <<"\\ord", "\\ord*", "<hi type=\"super\">", "</hi>">>,
      <<"\\tl", "\\tl*", "<foreign>", "</foreign>">>,
      <<"\\bk", "\\bk*", "<name type=\"x-workTitle\">", "</name>">>,
      <<"\\k", "\\k*", "<seg type=\"keyword\">", "</seg>">>>>

\* r'\\dc\b\s*(.+?)\\dc\*'
special_text_dc ==
    <<"\\dc", "\\dc*", "<transChange type=\"added\" editions=\"dc\">",
      "</transChange>">>

\* open '\s+(.+?)' close (least: 1) and open '\b\s*(.+?)' close (least: 0)
\* with re.DOTALL: the index after the match that starts at i (0: no match)
\* and group 1.  The whitespace is taken greedily; the group starts after
\* it and ends before the first closing directive after its first
\* character.  When there is none, the whitespace gives its last character
\* to the group if the closing directive follows it.
Pair(open, close, least, s, i) ==
    LET a    == SkipWhile(IsSpace, s, i + 1)
        e    == IF a <= Len(s)
                THEN FirstFrom(LAMBDA u, p : u[p] = close, s, a + 1) ELSE 0
        back == a - (i + 1) > least /\ IsAt(s, a, close)
    IN  IF s[i] # open \/ a - (i + 1) < least \/ (least = 0 /\ ~WordB(s, i + 1))
        THEN [end |-> 0, group |-> <<>>]
        ELSE IF e # 0 THEN [end |-> e + 1, group |-> Slice(s, a, e - 1)]
        ELSE IF back THEN [end |-> a + 1, group |-> <<s[a - 1]>>]
        ELSE [end |-> 0, group |-> <<>>]

\* re.sub of one expression, r'<tag>\1</tag>'
PairRule(text, rule, least) ==
    ReSub(LAMBDA s, i : Pair(rule[1], rule[2], least, s, i).end,
          LAMBDA s, i, e : <<rule[3]>> \o Pair(rule[1], rule[2], least, s, i).group
                           \o <<rule[4]>>,
          text, 1)

RECURSIVE PairRules(_, _)
PairRules(text, n) ==
    IF n > Len(special_texts) \/ Len(text) = 0 THEN text
    ELSE PairRules(PairRule(text, special_texts[n], 1), n + 1)

\* \lit, and \addpn and \k1..\k5 of relaxed_conformance, are not lexemes of
\* the modelled documents.  The replacement of the last expression,
\* r'\\sls\b\s*(.+?)\\sls\*', is r'<foreign>/1</foreign>'.
cvt_special_text(text, relaxed) ==
    LET paired == PairRules(text, 1)
        dc     == IF Len(paired) = 0 THEN paired
                  ELSE PairRule(paired, special_text_dc, 0)
    IN  ReSub(LAMBDA s, i : Pair("\\sls", "\\sls*", 0, s, i).end,
              LAMBDA s, i, e : <<"<foreign>", "/1", "</foreign>">>, dc, 1)

cvt_character_styling(text, relaxed) == text

cvt_spacing_and_breaks(text, relaxed) == text

\* the index of the n-th '|' at or after i, or 0
RECURSIVE Pipe(_, _, _)
Pipe(s, i, n) ==
    LET p == FirstFrom(LAMBDA u, j : u[j] = "|", s, i)
    IN  IF p = 0 \/ n = 1 THEN p ELSE Pipe(s, p + 1, n - 1)

\* r'\\fig\b\s+([^\|]*)\s*\|([^\|]*)\s*\|([^\|]*)\s*\|([^\|]*)\s*\|([^\|]*)
\* \s*\|([^\|]*)\s*\|([^\\]*)\s*\\fig\*': the index after the match that
\* starts at i (0: no match) and its seven groups
Fig(s, i) ==
    LET a == SkipWhile(IsSpace, s, i + 1)
        p == [n \in 1..6 |-> Pipe(s, a, n)]
        z == IF p[6] = 0 THEN 0
             ELSE FirstFrom(LAMBDA u, j : IsDirective(u[j]), s, p[6] + 1)
    IN  IF s[i] # "\\fig" \/ ~WordB(s, i + 1) \/ a = i + 1 \/ z = 0
        THEN [end |-> 0, groups |-> <<>>]
        ELSE IF s[z] # "\\fig*" THEN [end |-> 0, groups |-> <<>>]
        ELSE [end |-> z + 1,
              groups |-> <<Slice(s, a, p[1] - 1)>>
                         \o [n \in 1..5 |-> Slice(s, p[n] + 1, p[n + 1] - 1)]
                         \o <<Slice(s, p[6] + 1, z - 1)>>]

FigM(s, i) == Fig(s, i).end

make_figure_emptyParts(groups) ==
    LET fig_desc == groups[1]
        fig_file == groups[2]
        fig_size == groups[3]
        fig_loc  == groups[4]
        fig_copy == groups[5]
        fig_cap  == groups[6]
        fig_ref  == groups[7]
    IN  <<"<figure">>
        \o <<" src=\"">> \o fig_file \o <<"\"">>
        \o (IF Len(fig_size) > 0
            THEN <<" size=\"">> \o fig_size \o <<"\"">> ELSE <<>>)
        \o (IF Len(fig_copy) > 0
            THEN <<" rights=\"">> \o fig_copy \o <<"\"">> ELSE <<>>)
        \o <<">", "\n">>
        \o <<"<caption>">> \o fig_cap \o <<"</caption>", "\n">>
        \o (IF Len(fig_ref) > 0
            THEN <<"<reference type=\"annotateRef\">">> \o fig_ref
                 \o <<"</reference>", "\n">>
            ELSE <<>>)
        \o (IF Len(fig_desc) > 0
            THEN <<"<!-- fig DESC - ">> \o fig_desc \o <<" -->", "\n">>
            ELSE <<>>)
        \o (IF Len(fig_loc) > 0
            THEN <<"<!-- fig LOC - ">> \o fig_loc \o <<" -->", "\n">>
            ELSE <<>>)
        \o <<"</figure>">>

make_figure(groups) ==
    LET fig_desc == groups[1]
        fig_file == groups[2]
        fig_size == groups[3]
        fig_loc  == groups[4]
        fig_copy == groups[5]
        fig_cap  == groups[6]
        fig_ref  == groups[7]
    IN  <<"<figure">>
        \o (IF Len(fig_file) > 0
            THEN <<" src=\"">> \o fig_file \o <<"\"">> ELSE <<>>)
        \o (IF Len(fig_size) > 0
            THEN <<" size=\"">> \o fig_size \o <<"\"">> ELSE <<>>)
        \o (IF Len(fig_copy) > 0
            THEN <<" rights=\"">> \o fig_copy \o <<"\"">> ELSE <<>>)
        \o <<">", "\n">>
        \o (IF Len(fig_cap) > 0
            THEN <<"<caption>">> \o fig_cap \o <<"</caption>", "\n">>
            ELSE <<>>)
        \o (IF Len(fig_ref) > 0
            THEN <<"<reference type=\"annotateRef\">">> \o fig_ref
                 \o <<"</reference>", "\n">>
            ELSE <<>>)
        \o (IF Len(fig_desc) > 0
            THEN <<"<!-- fig DESC - ">> \o fig_desc \o <<" -->", "\n">>
            ELSE <<>>)
        \o (IF Len(fig_loc) > 0
            THEN <<"<!-- fig LOC - ">> \o fig_loc \o <<" -->", "\n">>
            ELSE <<>>)
        \o <<"</figure>">>

FigR(s, i, e) == make_figure(Fig(s, i).groups)

\* \ndx, \pro, \w, \wg and \wh are not lexemes of the modelled documents
cvt_special_features(text, relaxed) == ReSub(FigM, FigR, text, 1)

cvt_peripherals(text, relaxed) == text

\* \ef, \ex, \esb and \cat are not lexemes of the modelled documents, and
\* no note has the type crossReference: what is left is the second
\* expression, which calls process_note on every note of the text
cvt_study_bible_content(text, relaxed) == ReSub(NoteM, NoteR, text, 1)

cvt_private_use_extensions(text, relaxed) == text

----------------------------------------------------------------------------
(* process_osisIDs                                                         *)

DigitValue(d) ==
    CASE d = "0" -> 0 [] d = "1" -> 1 [] d = "2" -> 2 [] d = "3" -> 3
      [] d = "4" -> 4 [] d = "5" -> 5 [] d = "6" -> 6 [] d = "7" -> 7
      [] d = "8" -> 8 [] d = "9" -> 9

DigitOf(n) == <<"0", "1", "2", "3", "4", "5", "6", "7", "8", "9">>[n + 1]

\* int(): the decimal value of a run of digits
RECURSIVE int(_)
int(ds) ==
    IF ds = <<>> THEN 0
    ELSE 10 * int(SubSeq(ds, 1, Len(ds) - 1)) + DigitValue(ds[Len(ds)])

\* str(): the decimal digits of a natural number
RECURSIVE str(_)
str(n) == IF n < 10 THEN <<DigitOf(n)>> ELSE str(n \div 10) \o <<DigitOf(n % 10)>>

\* ' '.join(osisID)
RECURSIVE join(_)
join(ids) ==
    IF ids = <<>> THEN <<>>
    ELSE IF Len(ids) = 1 THEN ids[1]
    ELSE ids[1] \o <<" ">> \o join(Tail(ids))

\* re.findall(r'\d+', v): the runs of digits, in order
RECURSIVE findall_digits(_, _)
findall_digits(v, i) ==
    IF i > Len(v) THEN <<>>
    ELSE IF ~IsDigit(v[i]) THEN findall_digits(v, i + 1)
    ELSE LET e == SkipWhile(IsDigit, v, i)
         IN  <<SubSeq(v, i, e - 1)>> \o findall_digits(v, e)

RECURSIVE range_upTo(_, _)
range_upTo(lo, hi) == IF lo > hi THEN <<>> ELSE <<lo>> \o range_upTo(lo + 1, hi)

range_exclusive(lo, hi) == range_upTo(lo, hi - 1)

range_anyOrder(lo, hi) == IF lo > hi THEN range_upTo(hi, lo) ELSE range_upTo(lo, hi)

\* range(lo, hi + 1)
RECURSIVE range(_, _)
range(lo, hi) == IF lo > hi THEN <<>> ELSE <<lo>> \o range(lo + 1, hi)

expand_range(v_range) ==
    LET v == findall_digits(v_range, 1)
        r == range(int(v[1]), int(v[2]))
    IN  join([k \in 1..Len(r) |-> <<"$BOOK$", ".", "$CHAP$", ".">> \o str(r[k])])

expand_series_unique(v_series) ==
    LET v == findall_digits(v_series, 1)
        u == SelectSeq([k \in 1..Len(v) |-> <<k, v[k]>>],
                       LAMBDA x : \A j \in 1..(x[1] - 1) : v[j] # x[2])
    IN  join([k \in 1..Len(u) |-> <<"$BOOK$", ".", "$CHAP$", ".">> \o u[k][2]])

expand_series(v_series) ==
    LET v == findall_digits(v_series, 1)
    IN  join([k \in 1..Len(v) |-> <<"$BOOK$", ".", "$CHAP$", ".">> \o v[k]])

IsPlaceholderPrefix(s, i) ==
    /\ i + 3 <= Len(s)
    /\ s[i] = "$BOOK$" /\ s[i + 1] = "." /\ s[i + 2] = "$CHAP$" /\ s[i + 3] = "."

\* r'\$BOOK\$\.\$CHAP\$\.(\d+-\d+)"'
RangeM(s, i) ==
    IF ~IsPlaceholderPrefix(s, i) THEN 0
    ELSE LET a == SkipWhile(IsDigit, s, i + 4)
             b == SkipWhile(IsDigit, s, a + 1)
         IN  IF /\ a > i + 4 /\ a <= Len(s) /\ s[a] = "-"
                /\ b > a + 1 /\ b <= Len(s) /\ s[b] = "\""
             THEN b + 1 ELSE 0

RangeR(s, i, e) == expand_range(Slice(s, i + 4, e - 2)) \o <<"\"">>

\* the index after (,\d+)+ from a, or a when there is no such group
RECURSIVE SeriesTail(_, _)
SeriesTail(s, a) ==
    IF a < Len(s) /\ s[a] = "," /\ IsDigit(s[a + 1])
    THEN SeriesTail(s, SkipWhile(IsDigit, s, a + 1))
    ELSE a

\* r'\$BOOK\$\.\$CHAP\$\.(\d+(,\d+)+)"'
SeriesM(s, i) ==
    IF ~IsPlaceholderPrefix(s, i) THEN 0
    ELSE LET a == SkipWhile(IsDigit, s, i + 4)
             b == SeriesTail(s, a)
         IN  IF a > i + 4 /\ b > a /\ b <= Len(s) /\ s[b] = "\"" THEN b + 1 ELSE 0

SeriesR(s, i, e) == expand_series(Slice(s, i + 4, e - 2)) \o <<"\"">>

\* str.split(sep) for a one-lexeme separator
RECURSIVE split(_, _)
split(s, sep) ==
    LET n == FirstFrom(LAMBDA u, p : u[p] = sep, s, 1)
    IN  IF n = 0 THEN <<s>>
        ELSE <<Slice(s, 1, n - 1)>> \o split(Slice(s, n + 1, Len(s)), sep)

\* re.search(r'<div type="book" osisID="([^"]+?)"', bc): group 1, or <<>>
BookValueEnd(s, i) ==
    IF s[i] # "<div type=\"book\" osisID=" \/ i + 3 > Len(s) \/ s[i + 1] # "\"" THEN 0
    ELSE LET k == SkipWhile(LAMBDA x : ~HasQuoteOrDot(x) \/ x = ".", s, i + 2)
         IN  IF k > i + 2 /\ k <= Len(s) /\ s[k] = "\"" THEN k ELSE 0

book_value(bc) ==
    LET i == FirstFrom(LAMBDA s, p : BookValueEnd(s, p) > 0, bc, 1)
    IN  IF i = 0 THEN <<>> ELSE Slice(bc, i + 2, BookValueEnd(bc, i) - 1)

\* re.search(r'<chapter osisID="[^\."]+\.([^"]+)', cc): group 1, or <<>>
ChapValueEnd(s, i) ==
    IF s[i] # "<chapter osisID=" \/ i + 4 > Len(s) \/ s[i + 1] # "\"" THEN 0
    ELSE LET d == SkipWhile(LAMBDA x : ~HasQuoteOrDot(x), s, i + 2)
             k == SkipWhile(LAMBDA x : ~HasQuoteOrDot(x) \/ x = ".", s, d + 1)
         IN  IF d > i + 2 /\ d <= Len(s) /\ s[d] = "." /\ k > d + 1 THEN k ELSE 0

ChapValueStart(s, i) == SkipWhile(LAMBDA x : ~HasQuoteOrDot(x), s, i + 2) + 1

chap_value(cc) ==
    LET i == FirstFrom(LAMBDA s, p : ChapValueEnd(s, p) > 0, cc, 1)
    IN  IF i = 0 THEN <<>>
        ELSE Slice(cc, ChapValueStart(cc, i), ChapValueEnd(cc, i) - 1)

fill_chapter_never(cc) == cc

fill_chapter(cc) ==
    LET v == chap_value(cc)
    IN  IF v = <<>> THEN cc ELSE Replace(cc, "$CHAP$", v)

fill_book(bc) ==
    LET v == book_value(bc)
    IN  IF v = <<>> THEN bc
        ELSE LET chap_chunks == split(Replace(bc, "$BOOK$", v), "U+FDD1")
             IN  Cat([k \in 1..Len(chap_chunks) |-> fill_chapter(chap_chunks[k])])

process_osisIDs(text) ==
    LET ranges      == ReSub(RangeM, RangeR, text, 1)
        series      == ReSub(SeriesM, SeriesR, ranges, 1)
        book_chunks == split(series, "U+FDD0")
    IN  Cat([k \in 1..Len(book_chunks) |-> fill_book(book_chunks[k])])

----------------------------------------------------------------------------
(* osis_reorder_and_cleanup                                                *)

\* the lexemes that end with '>'
GtEnders ==
    {"/>", ">", "<p>", "</p>", "</div>", "<title>", "</title>",
     "</div type=\"book\">", "<note placement=\"foot\">", "</note>",
     "<p type=\"x-noindent\">", "<closer>", "</closer>", "<l level=\"1\">",
     "<l level=\"2\">", "</l>", "<lg>", "</lg>", "<lb type=\"x-p\"/>", "<lb/>",
     "<caption>", "</caption>", "<reference type=\"annotateRef\">",
     "</reference>", " -->", "</figure>"}
        \cup {IsOpenDiv(l) : l \in IsLevels}
        \cup {special_texts[n][t] : n \in DOMAIN special_texts, t \in {3, 4}}
        \cup {special_text_dc[3]}

EndsGt(x) == x \in GtEnders

\* '.+?>' from p, without re.DOTALL: the first lexeme of the line that ends
\* with '>' and meets After, or 0
GtOnLine(After(_, _), s, p) ==
    LET q == FirstFrom(LAMBDA u, x : u[x] = "\n" \/ (EndsGt(u[x]) /\ After(u, x + 1)),
                       s, p)
    IN  IF q = 0 \/ s[q] = "\n" THEN 0 ELSE q

\* '<verse eID=.+?>\uFDD2' at p: the index after it, or 0
VerseEndM(s, p) ==
    IF ~IsAt(s, p, "<verse eID=") THEN 0
    ELSE LET q == GtOnLine(LAMBDA u, x : IsAt(u, x, "U+FDD2"), s, p + 1)
         IN  IF q = 0 THEN 0 ELSE q + 2

\* an optional '\n' at p
OptNl(s, p) == IF IsAt(s, p, "\n") THEN p + 1 ELSE p

\* '(\uFDD3<chapter eID=.+?\n)(<verse eID=.+?>\uFDD2)\n?' -> r'\2' '\n' r'\1'
ChapVerseM(s, i) ==
    IF s[i] # "U+FDD3" \/ ~IsAt(s, i + 1, "<chapter eID=") THEN 0
    ELSE LET n == FirstFrom(LAMBDA u, p : u[p] = "\n", s, i + 2)
             v == IF n = 0 THEN 0 ELSE VerseEndM(s, n + 1)
         IN  IF v = 0 THEN 0 ELSE OptNl(s, v)

ChapVerseR(s, i, e) ==
    LET n == FirstFrom(LAMBDA u, p : u[p] = "\n", s, i + 2)
    IN  Slice(s, n + 1, VerseEndM(s, n + 1) - 1) \o <<"\n">> \o Slice(s, i, n)

MajorMarkers == {"U+FDD5", "U+FDD6", "U+FDD7", "U+FDD8", "U+FDD9"}

\* '<chapter eID.+?>' at c: the index after it, or 0
ChapEndTag(s, c) ==
    IF ~IsAt(s, c, "<chapter eID=") THEN 0
    ELSE LET q == GtOnLine(LAMBDA u, x : TRUE, s, c + 1)
         IN  IF q = 0 THEN 0 ELSE q + 1

\* '([\uFDD5-\uFDD9]</div>)([^\uFDD5-\uFDD9]*<chapter eID.+?>)' -> r'\2\1':
\* the class is greedy, so the last chapter end before the next marker
MajorM(s, i) ==
    IF s[i] \notin MajorMarkers \/ ~IsAt(s, i + 1, "</div>") THEN 0
    ELSE LET m == SkipWhile(LAMBDA x : x \notin MajorMarkers, s, i + 2)
             C == {c \in (i + 2)..(m - 1) : ChapEndTag(s, c) > 0}
         IN  IF C = {} THEN 0
             ELSE ChapEndTag(s, CHOOSE c \in C : \A d \in C : d <= c)

MajorR(s, i, e) == Slice(s, i + 2, e - 1) \o Slice(s, i, i + 1)

\* '(\uFDD3</p>\n?\uFDD3<p>)\n?(<verse eID=.+?>\uFDD2)\n?'
\*   -> r'\2' '\n' r'\1' '\n'
ParVerseHead(s, i) ==
    IF s[i] # "U+FDD3" \/ ~IsAt(s, i + 1, "</p>") THEN 0
    ELSE LET a == OptNl(s, i + 2)
         IN  IF IsAt(s, a, "U+FDD3") /\ IsAt(s, a + 1, "<p>") THEN a + 2 ELSE 0

ParVerseM(s, i) ==
    LET h == ParVerseHead(s, i)
        v == IF h = 0 THEN 0 ELSE VerseEndM(s, OptNl(s, h))
    IN  IF v = 0 THEN 0 ELSE OptNl(s, v)

ParVerseR(s, i, e) ==
    LET h == ParVerseHead(s, i)
        b == OptNl(s, h)
    IN  Slice(s, b, VerseEndM(s, b) - 1) \o <<"\n">> \o Slice(s, i, h - 1) \o <<"\n">>

\* '\n(<verse eID=.+?>\uFDD2)' -> r'\1' '\n'
NlVerseM(s, i) == IF s[i] # "\n" THEN 0 ELSE VerseEndM(s, i + 1)

NlVerseR(s, i, e) == Slice(s, i + 1, e - 1) \o <<"\n">>

\* '[\uFDD2\n]*<verse osisID=.+?>' at p: the index after it, or 0
VerseStartM(s, p) ==
    LET o == SkipWhile(LAMBDA x : x \in {"U+FDD2", "\n"}, s, p)
        q == IF IsAt(s, o, "<verse osisID=")
             THEN GtOnLine(LAMBDA u, x : TRUE, s, o + 1) ELSE 0
    IN  IF q = 0 THEN 0 ELSE q + 1

\* '<verse eID=.+?>[\uFDD2\n]*<verse osisID=.+?>' at p: the index after it,
\* or 0
VerseTurnM(s, p) ==
    IF ~IsAt(s, p, "<verse eID=") THEN 0
    ELSE LET q == GtOnLine(LAMBDA u, x : VerseStartM(u, x) > 0, s, p + 1)
         IN  IF q = 0 THEN 0 ELSE VerseStartM(s, q + 1)

\* the lexemes that start with '<l'
LStarters == LineTags \cup {"<lg>", "<lb type=\"x-p\"/>"}

\* group 1 of the expression of LineVerseM, '(<l.+?>)': its first and its
\* last lexeme, or <<0, 0>>
LineVerseGroup(s, i) ==
    LET k == SkipWhile(LAMBDA x : x = "\n", s, i)
        q == IF k <= Len(s) /\ s[k] \in LStarters
             THEN GtOnLine(LAMBDA u, x : VerseTurnM(u, x) > 0, s, k) ELSE 0
    IN  IF q = 0 THEN <<0, 0>> ELSE <<k, q>>

\* '\n*(<l.+?>)(<verse eID=.+?>[\uFDD2\n]*<verse osisID=.+?>)' -> r'\2\1'
LineVerseM(s, i) ==
    LET g == LineVerseGroup(s, i)
    IN  IF g[2] = 0 THEN 0 ELSE VerseTurnM(s, g[2] + 1)

LineVerseR(s, i, e) ==
    LET g == LineVerseGroup(s, i)
    IN  Slice(s, g[2] + 1, e - 1) \o Slice(s, g[1], g[2])

\* '(</l>)(<note .+?</note>)' -> r'\2\1'
LineNoteM(s, i) ==
    IF s[i] # "</l>" \/ ~IsAt(s, i + 1, NoteOpen) THEN 0
    ELSE LET q == FirstFrom(LAMBDA u, x : u[x] \in {"\n", "</note>"}, s, i + 2)
         IN  IF q = 0 \/ s[q] = "\n" THEN 0 ELSE q + 1

LineNoteR(s, i, e) == Slice(s, i + 1, e - 1) \o <<"</l>">>

\* r'(</[^\s>]+) [^>]*>' -> r'\1>': the attributes of an end tag
StripEndTag(x) == IF x = "</div type=\"book\">" THEN "</div>" ELSE x

\* the end tags and the closing milestones of the end_block loop
end_blocks == <<"p", "div", "note", "l", "lg", "chapter", "verse", "head",
                "title", "item", "list">>

EndTagOf(b) ==
    CASE b = "p" -> "</p>" [] b = "div" -> "</div>" [] b = "note" -> "</note>"
      [] b = "l" -> "</l>" [] b = "lg" -> "</lg>" [] b = "chapter" -> "</chapter>"
      [] b = "verse" -> "</verse>" [] b = "head" -> "</head>"
      [] b = "title" -> "</title>" [] b = "item" -> "</item>"
      [] b = "list" -> "</list>"

EidTagOf(b) ==
    CASE b = "chapter" -> "<chapter eID=" [] b = "verse" -> "<verse eID="
      [] OTHER -> "<no eID>"

\* '\s+</' + end_block + '>' -> '</' + end_block + r'>\n'
EndTagM(b, s, i) ==
    IF ~IsSpace(s[i]) THEN 0
    ELSE LET k == SkipWhile(IsSpace, s, i)
         IN  IF IsAt(s, k, EndTagOf(b)) THEN k + 1 ELSE 0

\* '\s+<' + end_block + '( eID=[^/>]+/>)' -> '<' + end_block + r'\1' + '\n'
EidTagM(b, s, i) ==
    IF ~IsSpace(s[i]) THEN 0
    ELSE LET k == SkipWhile(IsSpace, s, i)
             z == SkipWhile(LAMBDA x : ~EndsGt(x), s, k + 1)
         IN  IF IsAt(s, k, EidTagOf(b)) /\ z > k + 1 /\ IsAt(s, z, "/>")
             THEN z + 1 ELSE 0

EndBlock(text, b) ==
    LET ends == ReSub(LAMBDA s, i : EndTagM(b, s, i),
                      LAMBDA s, i, e : <<s[e - 1], "\n">>, text, 1)
    IN  IF Len(ends) = 0 THEN ends
        ELSE ReSub(LAMBDA s, i : EidTagM(b, s, i),
                   LAMBDA s, i, e :
                       Slice(s, SkipWhile(IsSpace, s, i), e - 1) \o <<"\n">>,
                   ends, 1)

\* for end_block in end_blocks: each round works on the text the round
\* before it has produced
RECURSIVE EndBlocks(_, _)
EndBlocks(text, n) ==
    IF n > Len(end_blocks) \/ Len(text) = 0 THEN text
    ELSE EndBlocks(EndBlock(text, end_blocks[n]), n + 1)

\* </[^>]+>
EndTags ==
    {"</p>", "</div>", "</title>", "</note>", "</closer>", "</l>", "</lg>",
     "</caption>", "</reference>", "</figure>"}
        \cup {special_texts[n][4] : n \in DOMAIN special_texts}

IsEndTag(x) == x \in EndTags

IsBlank(x) == x = " "

\* ' +((</[^>]+>)+) *' -> r'\1 '
SpaceEndM(s, i) ==
    IF s[i] # " " THEN 0
    ELSE LET a == SkipWhile(IsBlank, s, i)
             b == SkipWhile(IsEndTag, s, a)
         IN  IF b > a THEN SkipWhile(IsBlank, s, b) ELSE 0

SpaceEndR(s, i, e) ==
    LET a == SkipWhile(IsBlank, s, i)
    IN  Slice(s, a, SkipWhile(IsEndTag, s, a) - 1) \o <<" ">>

\* '  +' -> ' '
SpacesM(s, i) ==
    IF s[i] = " " /\ IsAt(s, i + 1, " ") THEN SkipWhile(IsBlank, s, i) ELSE 0

\* ' ?\n\n+' -> '\n'
BlankLinesM(s, i) ==
    LET a == IF s[i] = " " THEN i + 1 ELSE i
    IN  IF IsAt(s, a, "\n") /\ IsAt(s, a + 1, "\n")
        THEN SkipWhile(LAMBDA x : x = "\n", s, a) ELSE 0

\* for c in '\uFDD0...\uFDEF': osis = osis.replace(c, '')
DeleteNonChars_keepsLast(text) ==
    SelectSeq(text, LAMBDA x : x \notin NonChars \ {"U+FDEF"})

DeleteNonChars(text) == SelectSeq(text, LAMBDA x : x \notin NonChars)

\* r'(</[^\s>]+) [^>]*>' -> r'\1>' over the whole text
StripEndTags(text) == [k \in 1..Len(text) |-> StripEndTag(text[k])]

\* the rules in the order of the source: the innermost call is the first
\* rule, and each rule works on the text the rule before it has produced
osis_reorder_and_cleanup(text) ==
    ReSub(BlankLinesM, LAMBDA s, i, e : <<"\n">>,
      ReSub(SpacesM, LAMBDA s, i, e : <<" ">>,
        ReSub(SpaceEndM, SpaceEndR,
          EndBlocks(
            DeleteNonChars(
              Replace(
                StripEndTags(
                  ReSub(LineNoteM, LineNoteR,
                    ReSub(LineVerseM, LineVerseR,
                      ReSub(NlVerseM, NlVerseR,
                        ReSub(ParVerseM, ParVerseR,
                          ReSub(MajorM, MajorR,
                            ReSub(ChapVerseM, ChapVerseR, text, 1),
                            1),
                          1),
                        1),
                      1),
                    1)),
                "<lb type=\"x-p\"/>", <<"<lb/>">>)),
            1),
          1),
        1),
      1)

----------------------------------------------------------------------------
(* ConvertToOSIS                                                           *)

\* the default of the keyword argument
relaxed_conformance == FALSE

SPECIAL_BOOKS == {"front"}

\* str.strip(): without the whitespace at both ends
strip(s) ==
    LET K == {k \in 1..Len(s) : ~IsSpace(s[k])}
    IN  IF K = {} THEN <<>>
        ELSE Slice(s, CHOOSE k \in K : \A m \in K : k <= m,
                      CHOOSE k \in K : \A m \in K : m <= k)

\* str.lstrip(_unichr(0xFEFF))
lstrip_bom(s) == Slice(s, SkipWhile(LAMBDA x : x = "U+FEFF", s, 1), Len(s))

PassOrder_cleanupFirst ==
    <<"cvt_preprocess", "cvt_relaxed_conformance_remaps", "cvt_identification",
      "cvt_introductions", "cvt_titles", "cvt_chapters_and_verses",
      "cvt_paragraphs", "cvt_poetry", "cvt_tables", "cvt_footnotes",
      "cvt_cross_references", "cvt_special_text", "cvt_character_styling",
      "cvt_spacing_and_breaks", "cvt_special_features", "cvt_peripherals",
      "cvt_study_bible_content", "cvt_private_use_extensions",
      "osis_reorder_and_cleanup", "process_osisIDs">>

\* the calls of ConvertToOSIS, in the order of the source
PassOrder ==
    <<"cvt_preprocess", "cvt_relaxed_conformance_remaps", "cvt_identification",
      "cvt_introductions", "cvt_titles", "cvt_chapters_and_verses",
      "cvt_paragraphs", "cvt_poetry", "cvt_tables", "cvt_footnotes",
      "cvt_cross_references", "cvt_special_text", "cvt_character_styling",
      "cvt_spacing_and_breaks", "cvt_special_features", "cvt_peripherals",
      "cvt_study_bible_content", "cvt_private_use_extensions",
      "process_osisIDs", "osis_reorder_and_cleanup">>

NoText == <<"<no text>">>

\* encodings.aliases.aliases: the alias names among the modelled names
aliases == {"latin1", "utf8"}

\* str.lower() of a lexeme
lower(x) ==
    CASE x = "UTF-8" -> "utf-8" [] x = "CP-1252" -> "cp-1252"
      [] x = "A" -> "a" [] x = "B" -> "b" [] x = "Z" -> "z" [] OTHER -> x

\* codecs.open(sFile, 'r', enc).read(): the lexeme "0xC3A9" is the two
\* bytes C3 A9, one character in UTF-8 and two in Latin-1; the lexeme
\* "0xE9" is the byte E9, one character in Latin-1; every other lexeme of
\* the modelled files spells the bytes of the characters it stands for in
\* UTF-8, all below 80, and is read as these characters
decode(bytes, enc) ==
    Cat([k \in 1..Len(bytes) |->
            IF bytes[k] = "0xC3A9"
            THEN IF enc = "latin1" THEN <<"U+00C3", "U+00A9">> ELSE <<"U+00E9">>
            ELSE IF bytes[k] = "0xE9" THEN <<"U+00E9">>
            ELSE <<bytes[k]>>])

\* the byte E9 before a byte below 80 is no UTF-8 sequence: read() raises
decode_raises(bytes, enc) ==
    IF enc # "latin1" /\ \E k \in 1..Len(bytes) : bytes[k] = "0xE9"
    THEN "UnicodeDecodeError" ELSE ""

\* re.search(r'\\ide\s+(.+)' + '\n', osis): group(1).lower().strip() of the
\* first match, or <<>>
ide_declared(text) ==
    LET I == {i \in 1..Len(text) :
                 /\ text[i] = "\\ide" /\ i < Len(text) /\ IsSpace(text[i + 1])
                 /\ SkipWhile(IsSpace, text, i + 1) <= Len(text)}
    IN  IF I = {} THEN <<>>
        ELSE LET i == CHOOSE i \in I : \A m \in I : i <= m
                 j == SkipWhile(IsSpace, text, i + 1)
                 n == SkipWhile(LAMBDA x : x # "\n", text, j)
                 g == Slice(text, j, n - 1)
             IN  strip([k \in 1..Len(g) |-> lower(g[k])])

ide_consulted_always(enc, text) == ide_declared(text)

\* if encoding: ... else: the \ide line is looked for when no encoding is
\* passed
ide_consulted(enc, text) == IF enc # "" THEN <<>> ELSE ide_declared(text)

\* the file is read with the encoding passed; without one it is read as
\* UTF-8 and read again with the encoding its \ide line declares, when that
\* is not utf-8 and is an alias; a declared encoding that is no alias gives
\* a warning; a read that raises leaves ConvertToOSIS
ReadFile ==
    /\ pc = 0
    /\ raised = ""
    /\ LET first    == IF override # "" THEN override ELSE "utf-8"
           text     == strip(decode(sFile, first)) \o <<"\n">>
           declared == ide_consulted(override, text)
           other    == declared # <<>> /\ declared # <<"utf-8">>
           known    == other /\ Len(declared) = 1 /\ declared[1] \in aliases
       IN  IF decode_raises(sFile, first) # ""
           THEN /\ raised' = decode_raises(sFile, first)
                /\ decodes' = <<first>>
                /\ encoding' = first
                /\ UNCHANGED <<osis, warnings, pc>>
           ELSE IF known /\ decode_raises(sFile, declared[1]) # ""
           THEN /\ raised' = decode_raises(sFile, declared[1])
                /\ decodes' = <<first, declared[1]>>
                /\ encoding' = declared[1]
                /\ osis' = text
                /\ UNCHANGED <<warnings, pc>>
           ELSE /\ osis' = lstrip_bom(IF known
                                      THEN strip(decode(sFile, declared[1]))
                                               \o <<"\n">>
                                      ELSE text)
                /\ decodes' = IF known THEN <<first, declared[1]>> ELSE <<first>>
                /\ warnings' = IF other /\ ~known THEN warnings + 1 ELSE warnings
                /\ encoding' = IF override # "" THEN override
                               ELSE IF declared = <<>> THEN "None"
                               ELSE IF known THEN declared[1] ELSE "utf-8"
                /\ pc' = 1
                /\ UNCHANGED raised
    /\ UNCHANGED <<sFile, override, calls, result>>
    /\ UNCHANGED sortVars

\* the exception a pass raises on a text ("": it returns)
Raises(pass, text) ==
    CASE pass = "cvt_identification" -> cvt_identification_raises(text)
      [] pass = "cvt_poetry" -> cvt_poetry_raises(text)
      [] pass = "cvt_footnotes" -> cvt_footnotes_raises(text)
      [] OTHER -> ""

\* osis = pass(osis, ...): the call at position pc of the series; an
\* exception raised in the pass leaves ConvertToOSIS, and no call follows
Call(pass, ret) ==
    /\ pc \in 1..Len(PassOrder)
    /\ raised = ""
    /\ PassOrder[pc] = pass
    /\ IF Raises(pass, osis) # ""
       THEN /\ raised' = Raises(pass, osis)
            /\ UNCHANGED <<osis, calls, pc>>
       ELSE /\ osis' = ret
            /\ calls' = Append(calls, [pass |-> pass, arg |-> osis, ret |-> ret])
            /\ pc' = pc + 1
            /\ UNCHANGED raised
    /\ UNCHANGED <<sFile, override, encoding, decodes, warnings, result>>
    /\ UNCHANGED sortVars

Preprocess == Call("cvt_preprocess", cvt_preprocess(osis, relaxed_conformance))

RelaxedConformanceRemaps ==
    Call("cvt_relaxed_conformance_remaps",
         cvt_relaxed_conformance_remaps(osis, relaxed_conformance))

Identification ==
    Call("cvt_identification", cvt_identification(osis, relaxed_conformance))

Introductions ==
    Call("cvt_introductions", cvt_introductions(osis, relaxed_conformance))

Titles == Call("cvt_titles", cvt_titles(osis, relaxed_conformance))

ChaptersAndVerses ==
    Call("cvt_chapters_and_verses",
         cvt_chapters_and_verses(osis, relaxed_conformance))

Paragraphs == Call("cvt_paragraphs", cvt_paragraphs(osis, relaxed_conformance))

Poetry == Call("cvt_poetry", cvt_poetry(osis, relaxed_conformance))

Tables == Call("cvt_tables", cvt_tables(osis, relaxed_conformance))

Footnotes == Call("cvt_footnotes", cvt_footnotes(osis, relaxed_conformance))

CrossReferences ==
    Call("cvt_cross_references", cvt_cross_references(osis, relaxed_conformance))

SpecialText ==
    Call("cvt_special_text", cvt_special_text(osis, relaxed_conformance))

CharacterStyling ==
    Call("cvt_character_styling",
         cvt_character_styling(osis, relaxed_conformance))

SpacingAndBreaks ==
    Call("cvt_spacing_and_breaks",
         cvt_spacing_and_breaks(osis, relaxed_conformance))

SpecialFeatures ==
    Call("cvt_special_features", cvt_special_features(osis, relaxed_conformance))

Peripherals ==
    Call("cvt_peripherals", cvt_peripherals(osis, relaxed_conformance))

StudyBibleContent ==
    Call("cvt_study_bible_content",
         cvt_study_bible_content(osis, relaxed_conformance))

PrivateUseExtensions ==
    Call("cvt_private_use_extensions",
         cvt_private_use_extensions(osis, relaxed_conformance))

ProcessOsisIDs == Call("process_osisIDs", process_osisIDs(osis))

ReorderAndCleanup ==
    Call("osis_reorder_and_cleanup", osis_reorder_and_cleanup(osis))

\* osis.replace('<div type="book" osisID="' + sb + '">', '<div type="' + ... '">')
\* for sb in SPECIAL_BOOKS
SpecialBookM(s, i) ==
    IF /\ s[i] = "<div type=\"book\" osisID=" /\ i + 4 <= Len(s)
       /\ s[i + 1] = "\"" /\ s[i + 2] \in SPECIAL_BOOKS
       /\ s[i + 3] = "\"" /\ s[i + 4] = ">"
    THEN i + 5 ELSE 0

special_books(text) ==
    ReSub(SpecialBookM, LAMBDA s, i, e : <<"<div type=", "\"", s[i + 2], "\"", ">">>,
          text, 1)

Return ==
    /\ pc = Len(PassOrder) + 1
    /\ raised = ""
    /\ result' = special_books(osis)
    /\ pc' = pc + 1
    /\ UNCHANGED <<sFile, override, encoding, osis, calls, decodes, warnings, raised>>
    /\ UNCHANGED sortVars

Next ==
    \/ ReadFile
    \/ Preprocess
    \/ RelaxedConformanceRemaps
    \/ Identification
    \/ Introductions
    \/ Titles
    \/ ChaptersAndVerses
    \/ Paragraphs
    \/ Poetry
    \/ Tables
    \/ Footnotes
    \/ CrossReferences
    \/ SpecialText
    \/ CharacterStyling
    \/ SpacingAndBreaks
    \/ SpecialFeatures
    \/ Peripherals
    \/ StudyBibleContent
    \/ PrivateUseExtensions
    \/ ProcessOsisIDs
    \/ ReorderAndCleanup
    \/ Return

----------------------------------------------------------------------------
(* The documents ConvertToOSIS reads.  Every document starts with an \id   *)
(* line, for a book of BOOK_DICT in all the families but the fifth.  Five  *)
(* families of documents are explored, each by a specification of its own  *)
(* over the same actions.                                                  *)

IdLine == <<"\\id", " ", "GEN", "\n">>

RECURSIVE SeqsUpTo(_, _)
SeqsUpTo(S, n) ==
    IF n = 0 THEN {<<>>}
    ELSE LET T == SeqsUpTo(S, n - 1)
         IN  T \cup {Append(t, x) : t \in {u \in T : Len(u) = n - 1}, x \in S}

\* 1. up to MaxLines lines: chapters, a verse with text and one without,
\*    a paragraph, introduction sections of levels 1 and 3, and a line of
\*    private-use code points
MaxLines == 3

Lines ==
    {<<"\\c", " ", "1", "\n">>,
     <<"\\c", " ", "2", "\n">>,
     <<"\\v", " ", "1", " ", "w", "\n">>,
     <<"\\v", " ", "1", "\n">>,
     <<"\\p", "\n">>,
     <<"\\is", " ", "w", "\n">>,
     <<"\\is3", " ", "w", "\n">>,
     <<"U+FDD1", "U+FDEF", "w", "\n">>}

Documents == {IdLine \o Cat(ls) : ls \in SeqsUpTo(Lines, MaxLines)}

\* no sorting run has been made
NoSort ==
    /\ python = 3
    /\ order = ""
    /\ names = <<>>
    /\ keys = <<>>
    /\ counter = 0
    /\ sorted = <<>>
    /\ runs = 0
    /\ threads = <<>>

\* ConvertToOSIS is called on one of the files, with one of the encodings
Called(files, encodings) ==
    /\ sFile \in files
    /\ override \in encodings
    /\ encoding = override
    /\ osis = NoText
    /\ pc = 0
    /\ calls = <<>>
    /\ decodes = <<>>
    /\ warnings = 0
    /\ raised = ""
    /\ result = NoText
    /\ NoSort

Init == Called(Documents, {""})

Spec == Init /\ [][Next]_vars

\* 2. up to MaxCVLines chapter, verse and alternate chapter number lines
MaxCVLines == 4

CVLines ==
    {<<"\\c", " ", "1", "\n">>,
     <<"\\c", " ", "2", "\n">>,
     <<"\\v", " ", "1", " ", "w", "\n">>,
     <<"\\v", " ", "2", " ", "w", "\n">>,
     <<"\\cp", " ", "A", "\n">>}

CVDocuments == {IdLine \o Cat(ls) : ls \in SeqsUpTo(CVLines, MaxCVLines)}

InitCV == Called(CVDocuments, {""})

SpecCV == InitCV /\ [][Next]_vars

\* 3. chapter 2 with one verse whose number is a single number, a range
\*    a-b or a series n1,...,nk (2 <= k <= MaxSeries) of the numbers
\*    MinVerse..MaxVerse
MinVerse == 8

MaxVerse == 11

MaxSeries == 2

VerseNumbers == MinVerse..MaxVerse

RangeRef(a, b) == str(a) \o <<"-">> \o str(b)

RECURSIVE SeriesRef(_)
SeriesRef(ns) ==
    IF Len(ns) = 1 THEN str(ns[1])
    ELSE str(ns[1]) \o <<",">> \o SeriesRef(Tail(ns))

AllSeries == {ns \in SeqsUpTo(VerseNumbers, MaxSeries) : Len(ns) >= 2}

VerseRefs ==
    {str(n) : n \in VerseNumbers}
    \cup {RangeRef(a, b) : a, b \in VerseNumbers}
    \cup {SeriesRef(ns) : ns \in AllSeries}

IDDocument(ref) ==
    IdLine \o <<"\\c", " ", "2", "\n">> \o <<"\\v", " ">> \o ref \o <<" ", "w", "\n">>

IDDocuments == {IDDocument(ref) : ref \in VerseRefs}

InitIDs == Called(IDDocuments, {""})

SpecIDs == InitIDs /\ [][Next]_vars

\* 4. up to MaxEncLines lines: a chapter, a verse whose text is the bytes
\*    C3 A9, a verse whose text is the byte E9, and \ide lines that declare
\*    UTF-8, two aliases and a name that is no alias; read with and without
\*    an encoding passed
MaxEncLines == 2

EncLines ==
    {<<"\\ide", " ", "UTF-8", "\n">>,
     <<"\\ide", " ", "latin1", "\n">>,
     <<"\\ide", " ", "CP-1252", "\n">>,
     <<"\\ide", " ", "utf8", "\n">>,
     <<"\\c", " ", "1", "\n">>,
     <<"\\v", " ", "1", " ", "0xC3A9", "\n">>,
     <<"\\v", " ", "2", " ", "0xE9", "\n">>}

EncDocuments == {IdLine \o Cat(ls) : ls \in SeqsUpTo(EncLines, MaxEncLines)}

Encodings == {"", "utf-8", "latin1"}

InitEnc == Called(EncDocuments, Encodings)

SpecEnc == InitEnc /\ [][Next]_vars

\* 5. an \id line with a book code that is, or is not, a key of BOOK_DICT
\*    and up to MaxAnyLines lines: a chapter, a verse, a poetry directive
\*    of level 6, an unknown directive, text with '&', '<' and '>', and
\*    verses with a footnote: one of one paragraph, one of two, and one
\*    without a caller
MaxAnyLines == 2

AnyLines ==
    {<<"\\c", " ", "1", "\n">>,
     <<"\\v", " ", "1", " ", "w", "\n">>,
     <<"\\qm6", " ", "w", "\n">>,
     <<"\\uu", " ", "w", "\n">>,
     <<"\\v", " ", "2", " ", "<", "w", ">", "&", "\n">>,
     <<"&", "lt;", "\n">>,
     <<"\\v", " ", "3", " ", "w", "\\f", " ", "+", " ", "\\ft", " ", "w",
       "\\f*", "\n">>,
     <<"\\v", " ", "4", " ", "w", "\\f", " ", "+", " ", "\\ft", " ", "w",
       "\\fp", " ", "A", "\\f*", "\n">>,
     <<"\\v", " ", "5", " ", "w", "\\f", " ", "\\ft", " ", "w", "\\f*", "\n">>}

AnyDocuments ==
    {<<"\\id", " ", b, "\n">> \o Cat(ls) :
        b \in BookCodes, ls \in SeqsUpTo(AnyLines, MaxAnyLines)}

InitAny == Called(AnyDocuments, {""})

SpecAny == InitAny /\ [][Next]_vars

\* 6. up to MaxTermLines lines, each ended by LF, CR LF or CR: a paragraph
\*    directive, one after a blank, a word, a word that starts with the
\*    letter s, and an empty line
MaxTermLines == 2

Terminators == {<<"\n">>, <<"\r", "\n">>, <<"\r">>}

TermLines ==
    {l \o t : l \in {<<"\\p">>, <<" ", "\\p">>, <<"w">>, <<"s">>, <<>>},
              t \in Terminators}

TermDocuments == {IdLine \o Cat(ls) : ls \in SeqsUpTo(TermLines, MaxTermLines)}

InitTerm == Called(TermDocuments, {""})

SpecTerm == InitTerm /\ [][Next]_vars

\* 7. a line with a figure of seven fields, each of them empty or up to
\*    MaxFieldWords words
MaxFieldWords == 1

FigWords == <<"DESC", "FILE", "SIZE", "LOC", "COPY", "CAP", "REF">>

\* the field of n words w
RECURSIVE Field(_, _)
Field(w, n) ==
    IF n = 0 THEN <<>>
    ELSE IF n = 1 THEN <<w>> ELSE <<w, " ">> \o Field(w, n - 1)

\* the figure whose field k holds n[k] words
FigLine(n) ==
    <<"\\fig", " ">>
    \o Cat([k \in 1..13 |-> IF k % 2 = 0 THEN <<"|">>
                            ELSE Field(FigWords[(k + 1) \div 2], n[(k + 1) \div 2])])
    \o <<"\\fig*", "\n">>

FigDocuments == {IdLine \o FigLine(n) : n \in [1..7 -> 0..MaxFieldWords]}

InitFig == Called(FigDocuments, {""})

SpecFig == InitFig /\ [][Next]_vars

\* 8. up to MaxAltLines lines: chapter 2 with and without an alternate
\*    chapter number, and verses whose number is a single number, a range,
\*    a series or a series with a range in it, with and without an
\*    alternate verse number
MaxAltLines == 2

AltLines ==
    {<<"\\c", " ", "2", "\n">>,
     <<"\\c", " ", "2", "\n", "\\ca", " ", "3", "\\ca*", "\n">>,
     <<"\\v", " ", "1", " ", "w", "\n">>,
     <<"\\v", " ", "1", " ", "\\va", " ", "4", "\\va*", " ", "w", "\n">>,
     <<"\\v", " ", "1", "-", "2", " ", "w", "\n">>,
     <<"\\v", " ", "1", "-", "2", " ", "\\va", " ", "4", "\\va*", " ", "w", "\n">>,
     <<"\\v", " ", "1", ",", "2", " ", "\\va", " ", "4", "\\va*", " ", "w", "\n">>,
     <<"\\v", " ", "3", ",", "5", "-", "7", " ", "w", "\n">>}

AltDocuments == {IdLine \o Cat(ls) : ls \in SeqsUpTo(AltLines, MaxAltLines)}

InitAlt == Called(AltDocuments, {""})

SpecAlt == InitAlt /\ [][Next]_vars

\* 9. up to MaxPoetryLines lines: poetic lines of level 1 and 2, a blank
\*    line, a blank line with a poetic line after it, a paragraph, a
\*    paragraph without indent, a closing, chapter 2 and verse 1
MaxPoetryLines == 3

PoetryLines ==
    {<<"\\q1", " ", "w", "\n">>,
     <<"\\q2", " ", "A", "\n">>,
     <<"\\b", "\n">>,
     <<"\\b", "\n", "\\q", " ", "w", "\n">>,
     <<"\\p", "\n">>,
     <<"\\m", " ", "w", "\n">>,
     <<"\\cls", " ", "w", "\n">>,
     <<"\\c", " ", "2", "\n">>,
     <<"\\v", " ", "1", " ", "A", "\n">>}

PoetryDocuments ==
    {IdLine \o Cat(ls) : ls \in SeqsUpTo(PoetryLines, MaxPoetryLines)}

InitPoetry == Called(PoetryDocuments, {""})

SpecPoetry == InitPoetry /\ [][Next]_vars

\* 10. a paragraph of up to MaxPieces pieces: a word, or a word between one
\*     of the twelve special text directives and its closing form
MaxPieces == 2

PairedDirectives ==
    {special_texts[n][1] : n \in DOMAIN special_texts} \cup {"\\dc", "\\sls"}

\* the closing form of a directive
Closing(d) ==
    CHOOSE c \in ClosingDirectives :
        \/ \E n \in DOMAIN special_texts :
              special_texts[n][1] = d /\ special_texts[n][2] = c
        \/ d = "\\dc" /\ c = "\\dc*"
        \/ d = "\\sls" /\ c = "\\sls*"

Pieces ==
    {<<"w", " ">>} \cup {<<d, " ", "A", Closing(d), " ">> : d \in PairedDirectives}

TextDocuments ==
    {IdLine \o <<"\\p", "\n">> \o Cat(ps) \o <<"\n">> :
        ps \in SeqsUpTo(Pieces, MaxPieces)}

InitText == Called(TextDocuments, {""})

SpecText == InitText /\ [][Next]_vars

(***************************************************************************)
(* sort.py: the sort keys, and the runs that sort filenames with them      *)
(***************************************************************************)

\* the values of a key: an int, the float inf, a str of one character
IntValue(n) == [type |-> "int", n |-> n, c |-> ""]

inf == [type |-> "float", n |-> 0, c |-> "inf"]

StrValue(c) == [type |-> "str", n |-> 0, c |-> c]

\* the filenames of the book table, and the two book sequences
FILENAME_TO_OSIS ==
    [f \in {"01-GEN.usfm", "41-MAT.usfm", "68-TOB.usfm"} |->
        CASE f = "01-GEN.usfm" -> "Gen" [] f = "41-MAT.usfm" -> "Matt"
          [] f = "68-TOB.usfm" -> "Tob"]

CANONICAL_ORDER == <<"Gen", "Exod", "Tob", "Matt">>

USFM_NUMERIC_ORDER == <<"Gen", "Exod", "Matt", "Tob">>

\* list.index(x)
index(list, x) ==
    (CHOOSE i \in 1..Len(list) :
        list[i] = x /\ \A j \in 1..(i - 1) : list[j] # x) - 1

key_canon_unknownFirst(filename) ==
    IF filename \in DOMAIN FILENAME_TO_OSIS
    THEN IntValue(index(CANONICAL_ORDER, FILENAME_TO_OSIS[filename]))
    ELSE IntValue(0)

key_canon(filename) ==
    IF filename \in DOMAIN FILENAME_TO_OSIS
    THEN IntValue(index(CANONICAL_ORDER, FILENAME_TO_OSIS[filename]))
    ELSE inf

key_usfm(filename) ==
    IF filename \in DOMAIN FILENAME_TO_OSIS
    THEN IntValue(index(USFM_NUMERIC_ORDER, FILENAME_TO_OSIS[filename]))
    ELSE inf

key_supplied_unchanged(count) == count

\* key_supplied.counter after the call, which is the key returned; the
\* counter is 0 while the function has no such attribute
key_supplied(count) == count + 1

\* the characters of the strings sorted in natural order
characters ==
    [s \in {"Z", "a", "10th", "1st", "9", "aB", "Ab"} |->
        CASE s = "10th" -> <<"1", "0", "t", "h">>
          [] s = "1st" -> <<"1", "s", "t">>
          [] s = "aB" -> <<"a", "B">>
          [] s = "Ab" -> <<"A", "b">>
          [] OTHER -> <<s>>]

\* for char in string: the list after the characters cs
RECURSIVE key_natural_loop(_, _)
key_natural_loop(cs, sorted_list) ==
    IF cs = <<>> THEN sorted_list
    ELSE LET char == Head(cs)
             n    == Len(sorted_list)
         IN  key_natural_loop(Tail(cs),
                 IF IsDigit(char)
                 THEN IF n > 0 /\ sorted_list[n].type = "int"
                      THEN [sorted_list EXCEPT
                               ![n] = IntValue(@.n * 10 + DigitValue(char))]
                      ELSE Append(sorted_list, IntValue(DigitValue(char)))
                 ELSE Append(sorted_list, StrValue(lower(char))))

key_natural(string) == key_natural_loop(characters[string], <<>>)

\* a < b of two values, as "True" or "False"; an int and a str have no
\* order in Python 3 ("TypeError"), and the int is the smaller in Python 2
value_lt(a, b) ==
    LET ord == <<"a", "b", "h", "s", "t", "z">>
        Bool(p) == IF p THEN "True" ELSE "False"
    IN  IF a.type = "str" /\ b.type = "str"
        THEN Bool(index(ord, a.c) < index(ord, b.c))
        ELSE IF a.type # "str" /\ b.type # "str"
        THEN Bool(a.type = "int" /\ (b.type = "float" \/ a.n < b.n))
        ELSE IF python = 2 THEN Bool(a.type = "int")
        ELSE "TypeError"

\* a < b of two keys: the keys of key_natural are lists, ordered by their
\* first unequal values, or by their lengths
key_lt(a, b) ==
    IF order # "natural" THEN value_lt(a, b)
    ELSE LET D == {i \in 1..Len(a) : i <= Len(b) /\ a[i] # b[i]}
         IN  IF D = {} THEN IF Len(a) < Len(b) THEN "True" ELSE "False"
             ELSE LET i == CHOOSE i \in D : \A j \in D : i <= j
                  IN  value_lt(a[i], b[i])

\* the end of the run the list starts with: the items descend, or do not,
\* as the first two do (0: a comparison raised)
RECURSIVE count_run(_, _, _)
count_run(k, descending, j) ==
    IF j = Len(k) THEN j
    ELSE LET c == key_lt(k[j + 1], k[j])
         IN  IF c = "TypeError" THEN 0
             ELSE IF (c = "True") = descending
                  THEN count_run(k, descending, j + 1)
             ELSE j

\* the place of the item at position pivot among the sorted positions
\* a[l..r-1] (0: a comparison raised)
RECURSIVE bisect(_, _, _, _, _)
bisect(k, a, pivot, l, r) ==
    IF l >= r THEN l
    ELSE LET p == l + ((r - l) \div 2)
             c == key_lt(k[pivot], k[a[p]])
         IN  IF c = "TypeError" THEN 0
             ELSE IF c = "True" THEN bisect(k, a, pivot, l, p)
             ELSE bisect(k, a, pivot, p + 1, r)

\* the positions a, sorted up to start - 1, with the others inserted
\* (<<>>: a comparison raised)
RECURSIVE binarysort(_, _, _)
binarysort(k, a, start) ==
    IF start > Len(a) THEN a
    ELSE LET l == bisect(k, a, a[start], 1, start)
         IN  IF l = 0 THEN <<>>
             ELSE binarysort(k,
                      SubSeq(a, 1, l - 1) \o <<a[start]>> \o
                      SubSeq(a, l, start - 1) \o SubSeq(a, start + 1, Len(a)),
                      start + 1)

\* sorted(items, key=...) on the keys k of the items: the sort of fewer
\* than 64 items finds the run at the start of the list, reverses it when
\* it descends, and inserts the other items (<<>>: a comparison raised)
sorted_by(items, k) ==
    LET n     == Len(items)
        first == IF n < 2 THEN "False" ELSE key_lt(k[2], k[1])
        run   == IF n < 2 THEN n
                 ELSE IF first = "TypeError" THEN 0
                 ELSE count_run(k, first = "True", 2)
        a     == [i \in 1..n |->
                     IF i <= run /\ first = "True" THEN run + 1 - i ELSE i]
        b     == IF run = 0 THEN <<>> ELSE binarysort(k, a, run + 1)
    IN  [i \in 1..Len(b) |-> items[b[i]]]

MaxRuns == 2

MaxFiles == 3

FileNames == {"01-GEN.usfm", "41-MAT.usfm", "68-TOB.usfm", "zz.usfm", "aa.usfm"}

NaturalNames == {"9", "10th", "a", "aB", "Ab"}

NaturalExample == <<"Z", "a", "10th", "1st", "9">>

Orders == {"canon", "usfm", "supplied", "natural"}

\* the lists of items a run sorts in an order
Items(o) ==
    IF o = "natural"
    THEN (SeqsUpTo(NaturalNames, MaxFiles) \ {<<>>}) \cup {NaturalExample}
    ELSE SeqsUpTo(FileNames, MaxFiles) \ {<<>>}

\* a run starts: sorted(items, key=...) is called; nothing resets the
\* attribute key_supplied.counter
StartRun ==
    /\ order = ""
    /\ runs < MaxRuns
    /\ \E o \in Orders : \E items \in Items(o) :
          /\ order' = o
          /\ names' = items
    /\ keys' = <<>>
    /\ sorted' = <<>>
    /\ runs' = runs + 1
    /\ UNCHANGED <<python, counter, threads, convertVars>>

\* the key function is called on the next item
Key(o, key, count) ==
    /\ order = o
    /\ Len(keys) < Len(names)
    /\ keys' = Append(keys, key)
    /\ counter' = count
    /\ UNCHANGED <<python, order, names, sorted, runs, threads, convertVars>>

KeyCanon == Key("canon", key_canon(names[Len(keys) + 1]), counter)

KeyUsfm == Key("usfm", key_usfm(names[Len(keys) + 1]), counter)

KeySupplied ==
    Key("supplied", IntValue(key_supplied(counter)), key_supplied(counter))

KeyNatural == Key("natural", key_natural(names[Len(keys) + 1]), counter)

\* the items are sorted by their keys, or a comparison raises
Sort ==
    /\ order # ""
    /\ Len(keys) = Len(names)
    /\ sorted = <<>>
    /\ raised = ""
    /\ LET s == sorted_by(names, keys)
       IN  IF s = <<>>
           THEN raised' = "TypeError" /\ UNCHANGED sorted
           ELSE sorted' = s /\ UNCHANGED raised
    /\ UNCHANGED <<python, order, names, keys, counter, runs, threads>>
    /\ UNCHANGED <<sFile, override, encoding, osis, pc, calls, decodes,
                   warnings, result>>

\* the run is over
Finish ==
    /\ sorted # <<>>
    /\ order' = ""
    /\ names' = <<>>
    /\ keys' = <<>>
    /\ sorted' = <<>>
    /\ UNCHANGED <<python, counter, runs, threads, convertVars>>

\* a process that sorts: no file is converted
InitSort ==
    /\ python \in {2, 3}
    /\ order = ""
    /\ names = <<>>
    /\ keys = <<>>
    /\ counter = 0
    /\ sorted = <<>>
    /\ runs = 0
    /\ threads = <<>>
    /\ sFile = NoText
    /\ override = ""
    /\ encoding = ""
    /\ osis = NoText
    /\ pc = -1
    /\ calls = <<>>
    /\ decodes = <<>>
    /\ warnings = 0
    /\ raised = ""
    /\ result = NoText

NextSort ==
    \/ StartRun
    \/ KeyCanon
    \/ KeyUsfm
    \/ KeySupplied
    \/ KeyNatural
    \/ Sort
    \/ Finish

SpecSort == InitSort /\ [][NextSort]_vars

----------------------------------------------------------------------------
(* Two threads of one process that sort with key_supplied at the same      *)
(* time.  A thread may be suspended between any two steps of the call      *)
(* (the test of hasattr, the assignment of 0, the load and the store of    *)
(* key_supplied.counter += 1, the load of the return statement).           *)

Threads == {1, 2}

\* the list a thread sorts
ThreadFiles == <<"a.usfm", "b.usfm", "c.usfm", "d.usfm">>

\* key_supplied has the attribute counter: a thread has assigned it
hasattr_counter == \E t \in Threads : threads[t].assigned

\* a step of thread t, from position at, changes the fields of change
Step(t, at, change) ==
    /\ order = "supplied"
    /\ threads[t].at = at
    /\ threads' = [threads EXCEPT ![t] = [f \in DOMAIN threads[t] |->
                      IF f \in DOMAIN change THEN change[f] ELSE threads[t][f]]]
    /\ UNCHANGED <<python, order, names, keys, sorted, runs, convertVars>>

\* sorted() calls the key function on the next item:
\* if not hasattr(key_supplied, "counter")
TestCounter(t) ==
    /\ Len(threads[t].keys) < Len(threads[t].names)
    /\ Step(t, "call", [at |-> IF hasattr_counter THEN "load" ELSE "assign"])
    /\ UNCHANGED counter

\* key_supplied.counter = 0
AssignCounter(t) ==
    /\ Step(t, "assign", [at |-> "load", assigned |-> TRUE])
    /\ counter' = 0

\* key_supplied.counter += 1: the value is loaded
LoadCounter(t) ==
    /\ Step(t, "load", [at |-> "store", stack |-> counter])
    /\ UNCHANGED counter

\* key_supplied.counter += 1: the sum is stored
StoreCounter(t) ==
    /\ Step(t, "store", [at |-> "return", assigned |-> TRUE])
    /\ counter' = key_supplied(threads[t].stack)

\* return key_supplied.counter
ReturnCounter(t) ==
    /\ Step(t, "return", [at |-> "call",
                          keys |-> Append(threads[t].keys, IntValue(counter))])
    /\ UNCHANGED counter

\* every item has its key: sorted() sorts the list of the thread
SortThread(t) ==
    /\ Len(threads[t].keys) = Len(threads[t].names)
    /\ Step(t, "call", [at |-> "sorted",
                        sorted |-> sorted_by(threads[t].names, threads[t].keys)])
    /\ UNCHANGED counter

InitThreads ==
    /\ python = 3
    /\ order = "supplied"
    /\ names = <<>>
    /\ keys = <<>>
    /\ counter = 0
    /\ sorted = <<>>
    /\ runs = 0
    /\ threads = [t \in Threads |->
                     [at |-> "call", stack |-> 0, assigned |-> FALSE,
                      names |-> SubSeq(ThreadFiles, 1, MaxFiles),
                      keys |-> <<>>, sorted |-> <<>>]]
    /\ sFile = NoText
    /\ override = ""
    /\ encoding = ""
    /\ osis = NoText
    /\ pc = -1
    /\ calls = <<>>
    /\ decodes = <<>>
    /\ warnings = 0
    /\ raised = ""
    /\ result = NoText

NextThreads ==
    \E t \in Threads :
        \/ TestCounter(t)
        \/ AssignCounter(t)
        \/ LoadCounter(t)
        \/ StoreCounter(t)
        \/ ReturnCounter(t)
        \/ SortThread(t)

SpecThreads == InitThreads /\ [][NextThreads]_vars

----------------------------------------------------------------------------
(* Vocabulary of the properties.                                           *)

\* ConvertToOSIS has returned
Returned == pc = Len(PassOrder) + 2

\* the text the first pass receives
TextRead == lstrip_bom(strip(sFile) \o <<"\n">>)

Has(text, x) == \E k \in 1..Len(text) : text[k] = x

HasAny(text, S) == \E k \in 1..Len(text) : text[k] \in S

\* the lines of a document after its \id line, without their line breaks
SourceLines(doc) ==
    LET parts == split(doc, "\n") IN SubSeq(parts, 2, Len(parts) - 1)

IsLineOf(l, directive) == Len(l) >= 1 /\ l[1] = directive

----------------------------------------------------------------------------
(* C1                                                                      *)

ExpectedPasses ==
    <<"cvt_preprocess", "cvt_relaxed_conformance_remaps", "cvt_identification",
      "cvt_introductions", "cvt_titles", "cvt_chapters_and_verses",
      "cvt_paragraphs", "cvt_poetry", "cvt_tables", "cvt_footnotes",
      "cvt_cross_references", "cvt_special_text", "cvt_character_styling",
      "cvt_spacing_and_breaks", "cvt_special_features", "cvt_peripherals",
      "cvt_study_bible_content", "cvt_private_use_extensions",
      "process_osisIDs", "osis_reorder_and_cleanup">>

\* C1: the calls made so far are the first passes of the fixed series
\* (preprocess, relaxed-conformance remap, identification, ..., private-use
\* extensions, process_osisIDs, osis_reorder_and_cleanup), one call each,
\* the first on the text read and every other one on the text the call
\* before it returned; the current text is the last text returned, and all
\* the passes have run once ConvertToOSIS returns.
C1_PassesInOrder ==
    /\ Len(calls) <= Len(ExpectedPasses)
    /\ \A k \in 1..Len(calls) :
          /\ calls[k].pass = ExpectedPasses[k]
          /\ calls[k].arg = (IF k = 1 THEN TextRead ELSE calls[k - 1].ret)
    /\ pc >= 1 =>
          osis = (IF calls = <<>> THEN TextRead ELSE calls[Len(calls)].ret)
    /\ pc >= 1 /\ ~Returned => Len(calls) = pc - 1
    /\ Returned => Len(calls) = Len(ExpectedPasses)

C1_Witness ==
    /\ Returned
    /\ Len(calls) = Len(ExpectedPasses)
    /\ \A k \in {3, 6, 19, 20} : calls[k].ret # calls[k].arg

----------------------------------------------------------------------------
(* C2                                                                      *)

\* C2: once osis_reorder_and_cleanup has run, the text holds no code point
\* of U+FDD0..U+FDEF, and neither does the text ConvertToOSIS returns,
\* whether the code point was in the input or a pass has inserted it.
C2_NoPrivateUseInOutput ==
    /\ pc > Len(ExpectedPasses) => ~HasAny(osis, NonChars)
    /\ Returned => ~HasAny(result, NonChars)

C2_Witness ==
    /\ Returned
    /\ HasAny(sFile, NonChars)
    /\ \E k \in 1..Len(calls) :
          /\ HasAny(calls[k].ret, NonChars \ {"U+FDD1", "U+FDEF"})
          /\ ~HasAny(calls[k].arg, NonChars \ {"U+FDD1", "U+FDEF"})
    /\ result # NoText

----------------------------------------------------------------------------
(* C3                                                                      *)

Placeholders == {"$BOOK$", "$CHAP$"}

\* every verse line comes after a chapter line
VersesInChapters(doc) ==
    LET ls == SourceLines(doc)
    IN  \A k \in 1..Len(ls) :
            IsLineOf(ls[k], "\\v") => \E j \in 1..(k - 1) : IsLineOf(ls[j], "\\c")

\* C3 as stated: after process_osisIDs, and in the text returned, there is
\* no $BOOK$ and no $CHAP$, wherever the verses of the book are.
C3_NoPlaceholderAnywhere ==
    /\ pc >= Len(ExpectedPasses) => ~HasAny(osis, Placeholders)
    /\ Returned => ~HasAny(result, Placeholders)

\* C3: for a document without private-use code points in which every verse
\* comes after a chapter directive, there is no $BOOK$ and no $CHAP$ after
\* process_osisIDs and none in the text returned.
C3_NoPlaceholderInChapters ==
    ~HasAny(sFile, NonChars) /\ VersesInChapters(sFile) =>
        /\ pc >= Len(ExpectedPasses) => ~HasAny(osis, Placeholders)
        /\ Returned => ~HasAny(result, Placeholders)

C3_Witness ==
    /\ Returned
    /\ ~HasAny(sFile, NonChars) /\ VersesInChapters(sFile)
    /\ Has(sFile, "\\v")
    /\ Has(calls[19].arg, "$BOOK$") /\ Has(calls[19].arg, "$CHAP$")
    /\ ~HasAny(result, Placeholders)

----------------------------------------------------------------------------
(* C4                                                                      *)

DivOpeners ==
    {"<div type=\"book\" osisID=", "<div type="} \cup {IsOpenDiv(l) : l \in IsLevels}

\* the element a lexeme opens, or ""
ElementOpened(x) ==
    CASE x \in DivOpeners -> "div" [] x = "<p>" -> "p" [] x = "<title>" -> "title"
      [] OTHER -> ""

\* the element a lexeme closes, or ""
ElementClosed(x) ==
    CASE x \in {"</div>", "</div type=\"book\">"} -> "div" [] x = "</p>" -> "p"
      [] x = "</title>" -> "title" [] OTHER -> ""

\* the opening and closing tags of a text, in order (milestones are empty
\* elements)
Tags(text) ==
    SelectSeq(text, LAMBDA x : ElementOpened(x) # "" \/ ElementClosed(x) # "")

\* every closing tag closes the element opened last, and none stays open
RECURSIVE Nested(_, _)
Nested(tags, open) ==
    IF tags = <<>> THEN open = <<>>
    ELSE IF ElementOpened(Head(tags)) # ""
         THEN Nested(Tail(tags), <<ElementOpened(Head(tags))>> \o open)
         ELSE /\ open # <<>>
              /\ Head(open) = ElementClosed(Head(tags))
              /\ Nested(Tail(tags), Tail(open))

WellFormed(text) == Nested(Tags(text), <<>>)

\* C4: the text ConvertToOSIS returns is well-formed: every opening tag has
\* its closing tag and the elements are properly nested, introduction
\* sections of every level included.
C4_WellFormedOutput == Returned => WellFormed(result)

----------------------------------------------------------------------------
(* Milestones and tags as the passes write them.                           *)

NonSpace(text) == SelectSeq(text, LAMBDA x : ~IsSpace(x))

BookOpen == <<"<div type=\"book\" osisID=", "\"", "Gen", "\"", ">">>

ChapterOpen(id) ==
    <<"<chapter osisID=", "\"">> \o id \o <<"\"", " sID=", "\"">> \o id
    \o <<"\"", "/>">>

ChapterClose(id) == <<"<chapter eID=", "\"">> \o id \o <<"\"", "/>">>

VerseOpen(id) ==
    <<"<verse osisID=", "\"">> \o id \o <<"\"", " sID=", "\"">> \o id
    \o <<"\"", "/>">>

VerseClose(id) == <<"<verse eID=", "\"">> \o id \o <<"\"", "/>">>

\* the index of the i-th lexeme x of a text, or 0
Nth(text, x, i) ==
    LET P == {p \in 1..Len(text) : text[p] = x}
    IN  IF i < 1 \/ Cardinality(P) < i THEN 0
        ELSE CHOOSE p \in P : Cardinality({q \in P : q < p}) = i - 1

\* the indexes of the chapter lines among the lines ls
ChapterLines(ls) == {k \in 1..Len(ls) : IsLineOf(ls[k], "\\c")}

\* the lines of the chapter that starts at line k: up to the next chapter
\* line or the end
ChapterSpan(ls, k) ==
    {j \in (k + 1)..Len(ls) : \A m \in (k + 1)..j : ~IsLineOf(ls[m], "\\c")}

\* the rank of chapter line k among the chapter lines
ChapterRank(ls, k) == Cardinality({j \in ChapterLines(ls) : j <= k})

----------------------------------------------------------------------------
(* C5                                                                      *)

\* chapters, each with one verse with text at least, and nothing else
ChaptersWithVerses(ls) ==
    /\ Len(ls) >= 1
    /\ \A k \in 1..Len(ls) :
          \/ IsLineOf(ls[k], "\\c") /\ k < Len(ls) /\ IsLineOf(ls[k + 1], "\\v")
          \/ IsLineOf(ls[k], "\\v") /\ Len(ls[k]) = 5 /\ k > 1

\* the milestones and verse texts of the lines ls in the order C5 gives;
\* n is the number of the chapter the lines before ls have opened
RECURSIVE ChapterBlocks(_, _)
ChapterBlocks(ls, n) ==
    IF ls = <<>> THEN ChapterClose(<<"Gen", ".", n>>)
    ELSE IF IsLineOf(Head(ls), "\\c")
         THEN (IF n = "" THEN <<>> ELSE ChapterClose(<<"Gen", ".", n>>))
              \o ChapterOpen(<<"Gen", ".", Head(ls)[3]>>)
              \o ChapterBlocks(Tail(ls), Head(ls)[3])
         ELSE VerseOpen(<<"Gen", ".", n, ".", Head(ls)[3]>>)
              \o <<Head(ls)[5]>>
              \o VerseClose(<<"Gen", ".", n, ".", Head(ls)[3]>>)
              \o ChapterBlocks(Tail(ls), n)

\* C5: for an \id line followed by chapters that each hold verses of plain
\* text, the text returned is, whitespace apart: the opening of the book
\* division; for every chapter its opening milestone (sID book.N), then for
\* every verse its opening milestone (sID book.N.M), its text and its
\* closing milestone (eID book.N.M), then the closing milestone of the
\* chapter (eID book.N); and the closing of the book division.
C5_MilestoneOrder ==
    Returned /\ ChaptersWithVerses(SourceLines(sFile)) =>
        NonSpace(result)
            = BookOpen \o ChapterBlocks(SourceLines(sFile), "") \o <<"</div>">>

C5_Witness ==
    /\ Returned
    /\ ChaptersWithVerses(SourceLines(sFile))
    /\ Cardinality(ChapterLines(SourceLines(sFile))) = 2
    /\ Has(result, "<verse eID=")

----------------------------------------------------------------------------
(* C6                                                                      *)

\* the call of the pass has just returned into osis
JustRan(pass) ==
    \E k \in 1..Len(ExpectedPasses) : ExpectedPasses[k] = pass /\ pc = k + 1

\* the number the identifiers of the chapter at line k carry: the value of
\* the first \cp of the chapter, or the number of the \c line
ChapterNumber(ls, k) ==
    LET C == {j \in ChapterSpan(ls, k) : IsLineOf(ls[j], "\\cp")}
    IN  IF C = {} THEN ls[k][3] ELSE ls[CHOOSE j \in C : \A m \in C : j <= m][3]

\* the verse directives and verse texts of a text, in order
Content(text, verse) == SelectSeq(text, LAMBDA x : x \in {verse, "w"})

\* C6: in the text cvt_chapters_and_verses returns, the chapter milestones
\* are, in order, one opening and one closing milestone for every \c line,
\* never overlapping; both carry the same identifier, $BOOK$.N or, with a
\* \cp X in the chapter, $BOOK$.X in osisID, sID and eID; no \cp of a
\* chapter is left, and the verses and their texts keep their order.
C6_ChapterMilestones ==
    JustRan("cvt_chapters_and_verses") =>
        LET ls == SourceLines(sFile)
            n  == Cardinality(ChapterLines(ls))
        IN  /\ SelectSeq(osis, LAMBDA x : x \in {"<chapter osisID=", "<chapter eID="})
                 = [i \in 1..(2 * n) |-> IF i % 2 = 1 THEN "<chapter osisID="
                                                      ELSE "<chapter eID="]
            /\ \A k \in ChapterLines(ls) :
                  LET id == <<"$BOOK$", ".", ChapterNumber(ls, k)>>
                      o  == Nth(osis, "<chapter osisID=", ChapterRank(ls, k))
                      c  == Nth(osis, "<chapter eID=", ChapterRank(ls, k))
                  IN  /\ Slice(osis, o, o + 12) = ChapterOpen(id)
                      /\ Slice(osis, c, c + 6) = ChapterClose(id)
                      /\ \A p \in o..c : osis[p] # "\\cp"
            /\ Content(osis, "<verse osisID=") 
                 = [i \in 1..Len(Content(sFile, "\\v")) |->
                       IF Content(sFile, "\\v")[i] = "\\v" THEN "<verse osisID="
                       ELSE "w"]

C6_Witness ==
    /\ JustRan("cvt_chapters_and_verses")
    /\ \E k \in ChapterLines(SourceLines(sFile)) :
          /\ ChapterNumber(SourceLines(sFile), k) = "A"
          /\ ChapterRank(SourceLines(sFile), k) = 1
    /\ Cardinality(ChapterLines(SourceLines(sFile))) = 2
    /\ Has(sFile, "\\v")
    /\ Has(osis, "A") /\ ~Has(osis, "\\cp")

----------------------------------------------------------------------------
(* C7                                                                      *)

\* the chapter at line k has no line of its own
EmptyChapter(ls, k) == k \in ChapterLines(ls) /\ ChapterSpan(ls, k) = {}

\* only chapter and verse lines, a chapter line first
ChaptersAndVersesOnly(ls) ==
    /\ \A k \in 1..Len(ls) : IsLineOf(ls[k], "\\c") \/ IsLineOf(ls[k], "\\v")
    /\ Len(ls) >= 1 => IsLineOf(ls[1], "\\c")

\* C7: in the text returned for a document of chapter and verse lines that
\* starts with a chapter, the opening milestone of an empty chapter is
\* followed, after whitespace only, by the closing milestone with the same
\* identifier, and the chapter after it has its own opening milestone after
\* that.
C7_EmptyChapter ==
    Returned /\ ChaptersAndVersesOnly(SourceLines(sFile)) =>
        LET ls == SourceLines(sFile)
        IN  \A k \in ChapterLines(ls) :
                EmptyChapter(ls, k) =>
                    LET o == Nth(result, "<chapter osisID=", ChapterRank(ls, k))
                        c == SkipWhile(IsSpace, result, o + 13)
                        n == Nth(result, "<chapter osisID=", ChapterRank(ls, k) + 1)
                    IN  /\ o > 0
                        /\ Slice(result, o, o + 12)
                             = ChapterOpen(<<"Gen", ".", ls[k][3]>>)
                        /\ Slice(result, c, c + 6)
                             = ChapterClose(<<"Gen", ".", ls[k][3]>>)
                        /\ k < Len(ls) =>
                              /\ n > c
                              /\ Slice(result, n, n + 12)
                                   = ChapterOpen(<<"Gen", ".", ls[k + 1][3]>>)

----------------------------------------------------------------------------
(* C8, C9, C10                                                             *)

\* the value of the attribute whose name is the lexeme at p
ValueAt(text, p) ==
    Slice(text, p + 2, FirstFrom(LAMBDA u, x : u[x] = "\"", text, p + 2) - 1)

\* osisID, sID and eID of the first verse of a text
VerseAttributes(text) ==
    LET o == Nth(text, "<verse osisID=", 1)
    IN  <<ValueAt(text, o),
          ValueAt(text, FirstFrom(LAMBDA u, x : u[x] = " sID=", text, o)),
          ValueAt(text, Nth(text, "<verse eID=", 1))>>

DecimalDigits == <<"1", "2", "3", "4", "5", "6", "7", "8", "9">>

\* the numeral of n, 1 <= n <= 99
Numeral(n) ==
    IF n < 10 THEN <<DecimalDigits[n]>>
    ELSE <<DecimalDigits[n \div 10],
           IF n % 10 = 0 THEN "0" ELSE DecimalDigits[n % 10]>>

\* Gen.2.n1 Gen.2.n2 ... for the verse numbers ns
IdList(ns) ==
    Cat([k \in 1..Len(ns) |->
            (IF k = 1 THEN <<>> ELSE <<" ">>) \o <<"Gen", ".", "2", ".">>
            \o Numeral(ns[k])])

\* process_osisIDs has returned
IDsProcessed == pc >= Len(ExpectedPasses)

\* C8: a verse number a-b with a <= b becomes, in process_osisIDs, the
\* b-a+1 identifiers book.chapter.a, book.chapter.(a+1), ..., book.chapter.b
\* in ascending order, separated by blanks, in osisID, sID and eID, and
\* stays so in the text returned.
C8_RangeExpansion ==
    \A a, b \in VerseNumbers :
        a <= b /\ sFile = IDDocument(RangeRef(a, b)) /\ IDsProcessed =>
            LET ids == IdList([i \in 1..(b - a + 1) |-> a + i - 1])
            IN  /\ VerseAttributes(osis) = <<ids, ids, ids>>
                /\ Returned => VerseAttributes(result) = <<ids, ids, ids>>

C8_Witness ==
    /\ Returned
    /\ \E a, b \in VerseNumbers :
          /\ a + 2 <= b /\ a < 10 /\ b >= 10
          /\ sFile = IDDocument(RangeRef(a, b))
          /\ Len(VerseAttributes(result)[1]) > Len(IdList(<<a, b>>))

\* C9: a verse number n1,n2,...,nk (k >= 2) becomes, in process_osisIDs,
\* the k identifiers book.chapter.n1 ... book.chapter.nk in the order
\* given, a number that occurs twice giving two identifiers, and stays so
\* in the text returned.
C9_SeriesExpansion ==
    \A ns \in AllSeries :
        sFile = IDDocument(SeriesRef(ns)) /\ IDsProcessed =>
            /\ VerseAttributes(osis) = <<IdList(ns), IdList(ns), IdList(ns)>>
            /\ Returned =>
                  VerseAttributes(result) = <<IdList(ns), IdList(ns), IdList(ns)>>

C9_Witness ==
    /\ Returned
    /\ \E ns \in AllSeries :
          /\ ns[1] > ns[2]
          /\ sFile = IDDocument(SeriesRef(ns))
          /\ VerseAttributes(result)[1] = IdList(ns)

\* C10: a verse number a-b with a > b is not expanded to any identifier:
\* process_osisIDs leaves osisID, sID and eID of the verse empty, the
\* passes after it run, and ConvertToOSIS returns a text with the empty
\* attributes.
C10_DescendingRange ==
    \A a, b \in VerseNumbers :
        a > b /\ sFile = IDDocument(RangeRef(a, b)) /\ IDsProcessed =>
            /\ VerseAttributes(osis) = <<<<>>, <<>>, <<>>>>
            /\ Returned =>
                  /\ VerseAttributes(result) = <<<<>>, <<>>, <<>>>>
                  /\ Len(calls) = Len(ExpectedPasses)

C10_Witness ==
    /\ Returned
    /\ \E a, b \in VerseNumbers : a > b /\ sFile = IDDocument(RangeRef(a, b))
    /\ Has(result, "<verse osisID=") /\ Has(result, "</div>")

(***************************************************************************)
(* Sorting                                                                 *)
(***************************************************************************)

\* the run has sorted its items
Sorted == sorted # <<>>

Recognized(f) == f \in DOMAIN FILENAME_TO_OSIS

\* the position of a recognized file in the book sequence of the order
Position(f) ==
    index(IF order = "canon" THEN CANONICAL_ORDER ELSE USFM_NUMERIC_ORDER,
          FILENAME_TO_OSIS[f])

Unrecognized(list) == SelectSeq(list, LAMBDA f : ~Recognized(f))

Count(list, x) == Cardinality({i \in 1..Len(list) : list[i] = x})

IsPermutation(a, b) ==
    /\ Len(a) = Len(b)
    /\ \A i \in 1..Len(a) : Count(a, a[i]) = Count(b, a[i])

\* C11: in a run that sorts filenames with key_canon or key_usfm, a file
\* gets the key infinity exactly when the filename lookup does not hold it;
\* the sorted list is a permutation of the input in which every recognized
\* file comes before every unrecognized one, the recognized files are in
\* the order of their positions in the book sequence of the order, and
\* the unrecognized files are in their input order.
C11_CanonAndUsfmOrder ==
    order \in {"canon", "usfm"} =>
        /\ \A i \in 1..Len(keys) : (keys[i] = inf) = ~Recognized(names[i])
        /\ Sorted =>
              /\ IsPermutation(sorted, names)
              /\ \A i, j \in 1..Len(sorted) :
                    i < j /\ Recognized(sorted[j]) =>
                        /\ Recognized(sorted[i])
                        /\ Position(sorted[i]) <= Position(sorted[j])
              /\ Unrecognized(sorted) = Unrecognized(names)

C11_Witness ==
    /\ order = "usfm"
    /\ names = <<"zz.usfm", "68-TOB.usfm", "aa.usfm">>
    /\ sorted = <<"68-TOB.usfm", "zz.usfm", "aa.usfm">>
    /\ keys[1] = inf

\* C12: in a run that sorts with key_supplied, every call returns a key
\* strictly larger than the keys of all the calls before it in the run, and
\* the sorted list is the input list, item by item, whatever the items are
\* and also when items repeat.
C12_SuppliedKeepsInputOrder ==
    order = "supplied" =>
        /\ \A i, j \in 1..Len(keys) : i < j => keys[i].n < keys[j].n
        /\ \A i \in 1..Len(keys) : keys[i].type = "int"
        /\ Sorted => sorted = names

C12_Witness ==
    /\ order = "supplied"
    /\ names = <<"zz.usfm", "01-GEN.usfm", "zz.usfm">>
    /\ Len(keys) = 3
    /\ sorted = names

\* C13: the counter of key_supplied is reset at the start of each run: in
\* every run that sorts with key_supplied, the first item gets the key 1
\* and the i-th item the key i, however many items the earlier runs of the
\* process have keyed.
C13_CounterResetEachRun ==
    order = "supplied" => \A i \in 1..Len(keys) : keys[i] = IntValue(i)

\* C14: in a run that sorts with key_natural, the key of a string holds one
\* integer for each maximal run of digits and the lower-case form of every
\* other character, so that strings that differ in letter case only have
\* equal keys; comparing the keys never fails, numbers come before letters,
\* so that "a", "10th", "9" sorts to "9", "10th", "a", and "Z", "a", "10th",
\* "1st", "9" sorts to "1st", "9", "10th", "a", "Z".
C14_NaturalOrder ==
    order = "natural" =>
        /\ \A i \in 1..Len(keys) :
              /\ names[i] = "10th" =>
                    keys[i] = <<IntValue(10), StrValue("t"), StrValue("h")>>
              /\ names[i] = "1st" =>
                    keys[i] = <<IntValue(1), StrValue("s"), StrValue("t")>>
              /\ names[i] = "9" => keys[i] = <<IntValue(9)>>
              /\ names[i] = "Z" => keys[i] = <<StrValue("z")>>
              /\ names[i] \in {"aB", "Ab"} =>
                    keys[i] = <<StrValue("a"), StrValue("b")>>
        /\ raised = ""
        /\ Sorted /\ names = <<"a", "10th", "9">> =>
              sorted = <<"9", "10th", "a">>
        /\ Sorted /\ names = NaturalExample =>
              sorted = <<"1st", "9", "10th", "a", "Z">>

(***************************************************************************)
(* Reading the file                                                        *)
(***************************************************************************)

\* the file has been read
Read == pc >= 1

\* the name on the first \ide line of a document of the fourth family
\* ("": the document has no \ide line)
FirstIde(doc) ==
    LET I == {i \in 1..Len(doc) : doc[i] = "\\ide"}
    IN  IF I = {} THEN ""
        ELSE doc[(CHOOSE i \in I : \A j \in I : i <= j) + 2]

\* the text read holds the bytes C3 A9 and E9 of the file as UTF-8 has
\* them, as Latin-1 has them
ReadAsUtf8 ==
    /\ ~Has(osis, "U+00C3")
    /\ Has(osis, "U+00E9") = Has(sFile, "0xC3A9")

ReadAsLatin1 ==
    /\ Has(osis, "U+00C3") = Has(sFile, "0xC3A9")
    /\ Has(osis, "U+00E9") = Has(sFile, "0xE9")

\* the reading is over: the file has been read, or reading it has raised
ReadOver == pc >= 1 \/ raised = "UnicodeDecodeError"

\* C15: when an encoding is passed, the file is decoded once, with that
\* encoding, whatever \ide lines it holds: the file is not decoded again,
\* no warning is given, and the text the first pass receives is the file
\* in that encoding.
C15_OverrideDecodesOnce ==
    override # "" /\ ReadOver =>
        /\ decodes = <<override>>
        /\ warnings = 0
        /\ encoding = override
        /\ pc = 1 => IF override = "latin1" THEN ReadAsLatin1 ELSE ReadAsUtf8

C15_Witness ==
    /\ override = "utf-8"
    /\ FirstIde(sFile) = "latin1"
    /\ Has(sFile, "0xC3A9")
    /\ pc = 1
    /\ Has(osis, "U+00E9")
    /\ decodes = <<"utf-8">>

\* C16: when no encoding is passed, a first \ide line that names neither
\* UTF-8 nor an alias gives one warning, the text stays the one decoded as
\* UTF-8, the working encoding is utf-8 and the conversion does not fail;
\* one that names an alias other than utf-8 makes the file be decoded a
\* second time, with that encoding; one that names UTF-8, or no \ide line,
\* gives no second decoding and no warning.
C16_DeclaredEncoding ==
    override = "" /\ sFile \in EncDocuments =>
        /\ FirstIde(sFile) = "CP-1252" =>
              /\ raised = ""
              /\ Read =>
                    /\ warnings = 1
                    /\ decodes = <<"utf-8">>
                    /\ encoding = "utf-8"
                    /\ pc = 1 => ReadAsUtf8
        /\ FirstIde(sFile) \in {"latin1", "utf8"} /\ ReadOver =>
              /\ warnings = 0
              /\ decodes = <<"utf-8", FirstIde(sFile)>>
              /\ pc = 1 =>
                    IF FirstIde(sFile) = "latin1" THEN ReadAsLatin1
                    ELSE ReadAsUtf8
        /\ FirstIde(sFile) \in {"UTF-8", ""} /\ ReadOver =>
              /\ warnings = 0
              /\ decodes = <<"utf-8">>
              /\ pc = 1 => ReadAsUtf8

(***************************************************************************)
(* Errors                                                                  *)
(***************************************************************************)

\* the book code of the \id line of a document
BookCode(doc) == doc[3]

\* the pass that is running, or is to run next
Stage == IF pc \in 1..Len(PassOrder) THEN PassOrder[pc] ELSE ""

\* C17: a document whose \id line names a code that is no key of the book
\* table is never converted: the only exception its conversion raises is the
\* KeyError of the identification pass, no pass after cvt_relaxed_
\* conformance_remaps returns, and ConvertToOSIS returns no text; and the
\* identification pass raises for such documents only.
C17_UnknownBookCode ==
    /\ BookCode(sFile) \notin DOMAIN BOOK_DICT =>
          /\ raised \in {"", "KeyError"}
          /\ raised = "KeyError" => Stage = "cvt_identification"
          /\ Len(calls) <= 2
          /\ \A k \in 1..Len(calls) :
                calls[k].pass \in {"cvt_preprocess",
                                   "cvt_relaxed_conformance_remaps"}
          /\ ~Returned
          /\ result = NoText
    /\ raised # "" /\ Stage = "cvt_identification" =>
          BookCode(sFile) \notin DOMAIN BOOK_DICT

C17_Witness ==
    /\ BookCode(sFile) = "ZZZ"
    /\ raised = "KeyError"
    /\ Stage = "cvt_identification"
    /\ Len(calls) = 2
    /\ result = NoText

\* C18: no pass raises on a document whose \id line names a key of the book
\* table, whatever directives it holds (a poetry directive of any level, an
\* unknown directive), and the text ConvertToOSIS returns keeps the unknown
\* directive as it is.
C18_NoPassRaises ==
    BookCode(sFile) \in DOMAIN BOOK_DICT =>
        /\ raised = ""
        /\ Returned =>
              /\ result # NoText
              /\ Has(sFile, "\\uu") => Has(result, "\\uu")

\* C20: the text cvt_preprocess returns holds no '<' and no '>', every '&'
\* in it begins '&amp;', '&lt;' or '&gt;', and it holds one '&amp;' more for
\* each '&' of the text received, one '&lt;' more for each '<' and one
\* '&gt;' more for each '>', and no other '&': each character is escaped
\* once, and the '&' of an entity written for '<' or '>' is not escaped.
C20_EscapedOnce ==
    Len(calls) >= 1 =>
        LET arg == calls[1].arg
            ret == calls[1].ret
        IN  /\ calls[1].pass = "cvt_preprocess"
            /\ ~Has(ret, "<") /\ ~Has(ret, ">")
            /\ \A k \in 1..Len(ret) :
                  ret[k] = "&" => k < Len(ret) /\ ret[k + 1] \in EntityNames
            /\ Count(ret, "amp;") = Count(arg, "amp;") + Count(arg, "&")
            /\ Count(ret, "lt;") = Count(arg, "lt;") + Count(arg, "<")
            /\ Count(ret, "gt;") = Count(arg, "gt;") + Count(arg, ">")
            /\ Count(ret, "&") =
                  Count(arg, "&") + Count(arg, "<") + Count(arg, ">")

C20_Witness ==
    /\ Len(calls) >= 1
    /\ Count(calls[1].arg, "&") = 2
    /\ Has(calls[1].arg, "<") /\ Has(calls[1].arg, ">")
    /\ Has(calls[1].arg, "lt;")
    /\ Count(calls[1].ret, "&") = 4
    /\ Count(calls[1].ret, "amp;") = 2
    /\ Count(calls[1].ret, "lt;") = 2

(***************************************************************************)
(* Stages                                                                  *)
(***************************************************************************)

\* the directives of the modelled documents that a stage owns
Owned(pass) ==
    CASE pass = "cvt_identification" -> {"\\id", "\\ide"}
      [] pass = "cvt_introductions" ->
            {"\\is", "\\is1", "\\is2", "\\is3", "\\is4", "\\is5"}
      [] pass = "cvt_chapters_and_verses" -> {"\\c", "\\cp", "\\v"}
      [] pass = "cvt_paragraphs" -> {"\\p"}
      [] pass = "cvt_poetry" -> {"\\qm6"}
      [] pass = "cvt_footnotes" -> {"\\f", "\\ft", "\\fp", "\\f*"}
      [] OTHER -> {}

\* the stages that rewrite directives
DirectiveStages ==
    {PassOrder[k] : k \in 3..(Len(PassOrder) - 2)}

\* the call of a stage on a text that holds none of its directives
Foreign(call) ==
    /\ call.pass \in DirectiveStages
    /\ ~HasAny(call.arg, Owned(call.pass))

\* C19: a stage returns the text it receives as it is when the text holds
\* none of the directives of the stage, whatever directives of other stages
\* and whatever elements written by earlier stages the text holds; so the
\* study-Bible stage returns the notes of the footnote stage as they are.
C19_StageFrame ==
    \A k \in 1..Len(calls) : Foreign(calls[k]) => calls[k].ret = calls[k].arg

(***************************************************************************)
(* Line breaks                                                             *)
(***************************************************************************)

\* C21: in the text cvt_preprocess returns, whatever mix of the line
\* terminators LF, CR LF and CR the text received uses, the only line
\* terminator is LF, no whitespace character immediately precedes an LF,
\* and every LF is followed by a directive or by the end of the text.
C21_LineBreaks ==
    Len(calls) >= 1 =>
        LET ret == calls[1].ret
        IN  /\ ~Has(ret, "\r")
            /\ \A k \in 1..Len(ret) :
                  ret[k] = "\n" =>
                      /\ k > 1 => ~IsSpace(ret[k - 1])
                      /\ k < Len(ret) => IsDirective(ret[k + 1])

\* the part of C21 that holds: one terminator, and no whitespace before it
C21_OneTerminator ==
    Len(calls) >= 1 =>
        LET ret == calls[1].ret
        IN  /\ ~Has(ret, "\r")
            /\ \A k \in 2..Len(ret) : ret[k] = "\n" => ~IsSpace(ret[k - 1])

(***************************************************************************)
(* Figures                                                                 *)
(***************************************************************************)

\* the text the pass has returned (NoText: it has not)
Ret(pass) ==
    LET K == {k \in 1..Len(calls) : calls[k].pass = pass}
    IN  IF K = {} THEN NoText ELSE calls[CHOOSE k \in K : TRUE].ret

\* the seven fields of the figure of a document
Fields(doc) == split(Slice(doc, Len(IdLine) + 3, Len(doc) - 2), "|")

\* the part that starts with open and ends with close is in the text once,
\* holding the field, when the field is not empty, and is not in the text
\* when it is
Part(text, open, close, field) ==
    IF Len(field) = 0 THEN ~Has(text, open)
    ELSE /\ Count(text, open) = 1
         /\ \E k \in 1..Len(text) :
               /\ text[k] = open
               /\ Slice(text, k + 1, k + Len(field)) = field
               /\ k + Len(field) < Len(text)
               /\ text[k + Len(field) + 1] = close

\* C22: for a \fig directive with seven fields, cvt_special_features
\* returns one figure element in which each part is present if and only if
\* its field is not empty (src for the filename, size for the size, rights
\* for the copyright, a caption for the caption, a reference for the
\* reference, and a comment each for the description and the location),
\* each part holding its field; with seven empty fields the element is the
\* empty figure.
C22_Figure ==
    Ret("cvt_special_features") # NoText =>
        LET ret == Ret("cvt_special_features")
            f   == Fields(sFile)
        IN  /\ Len(f) = 7
            /\ Count(ret, "<figure") = 1 /\ Count(ret, "</figure>") = 1
            /\ ~Has(ret, "\\fig") /\ ~Has(ret, "\\fig*") /\ ~Has(ret, "|")
            /\ Part(ret, "<!-- fig DESC - ", " -->", f[1])
            /\ Part(ret, " src=\"", "\"", f[2])
            /\ Part(ret, " size=\"", "\"", f[3])
            /\ Part(ret, "<!-- fig LOC - ", " -->", f[4])
            /\ Part(ret, " rights=\"", "\"", f[5])
            /\ Part(ret, "<caption>", "</caption>", f[6])
            /\ Part(ret, "<reference type=\"annotateRef\">", "</reference>", f[7])
            /\ (\A k \in 1..7 : Len(f[k]) = 0) =>
                  \E k \in 1..Len(ret) :
                      SubSeq(ret, k, k + 3) = <<"<figure", ">", "\n", "</figure>">>

C22_Witness ==
    /\ Fields(sFile) = <<<<>>, <<"FILE">>, <<>>, <<"LOC">>, <<>>, <<"CAP">>, <<>>>>
    /\ Ret("cvt_special_features") # NoText
    /\ Has(Ret("cvt_special_features"), " src=\"")
    /\ Has(Ret("cvt_special_features"), "<caption>")
    /\ ~Has(Ret("cvt_special_features"), " size=\"")

(***************************************************************************)
(* Cleanup                                                                 *)
(***************************************************************************)

\* the end tags of the major elements
MajorEndTags == {EndTagOf(end_blocks[n]) : n \in 1..Len(end_blocks)}

\* no line break follows a line break, and no blank follows a blank
NoBlankLineNoBlanks(text) ==
    \A k \in 1..(Len(text) - 1) :
        /\ ~(text[k] = "\n" /\ text[k + 1] = "\n")
        /\ ~(text[k] = " " /\ text[k + 1] = " ")

\* C23: the text osis_reorder_and_cleanup returns holds no two consecutive
\* line breaks and no two consecutive blanks, and every end tag of a major
\* element (p, div, note, l, lg, chapter, verse, head, title, item, list)
\* in it is followed by exactly one line break.
C23_CleanOutput ==
    Ret("osis_reorder_and_cleanup") # NoText =>
        LET ret == Ret("osis_reorder_and_cleanup")
        IN  /\ NoBlankLineNoBlanks(ret)
            /\ \A k \in 1..Len(ret) :
                  ret[k] \in MajorEndTags =>
                      /\ k < Len(ret) /\ ret[k + 1] = "\n"
                      /\ k + 2 <= Len(ret) => ret[k + 2] # "\n"

\* the part of C23 that holds of the modelled documents
C23_NoBlankLine ==
    Ret("osis_reorder_and_cleanup") # NoText =>
        NoBlankLineNoBlanks(Ret("osis_reorder_and_cleanup"))

\* the reordering rules of osis_reorder_and_cleanup, each on the text the
\* rule before it has produced from text, change nothing when they are
\* applied a second time
RulesIdempotent(text) ==
    LET r1 == ReSub(ChapVerseM, ChapVerseR, text, 1)
        r2 == ReSub(MajorM, MajorR, r1, 1)
        r3 == ReSub(ParVerseM, ParVerseR, r2, 1)
        r4 == ReSub(NlVerseM, NlVerseR, r3, 1)
        r5 == ReSub(LineVerseM, LineVerseR, r4, 1)
        r6 == ReSub(LineNoteM, LineNoteR, r5, 1)
    IN  /\ ReSub(ChapVerseM, ChapVerseR, r1, 1) = r1
        /\ ReSub(MajorM, MajorR, r2, 1) = r2
        /\ ReSub(ParVerseM, ParVerseR, r3, 1) = r3
        /\ ReSub(NlVerseM, NlVerseR, r4, 1) = r4
        /\ ReSub(LineVerseM, LineVerseR, r5, 1) = r5
        /\ ReSub(LineNoteM, LineNoteR, r6, 1) = r6

\* C24: osis_reorder_and_cleanup is idempotent: on the text it has returned
\* it returns that text; and each of its reordering rules (verse end before
\* chapter end, close of a major section after chapter end, verse end
\* before a paragraph boundary, verse end before a line break, verse end
\* before the start of a poetic line, note before the end of a poetic line)
\* changes nothing when it is applied a second time.
C24_CleanupIdempotent ==
    \A k \in 1..Len(calls) :
        calls[k].pass = "osis_reorder_and_cleanup" =>
            /\ osis_reorder_and_cleanup(calls[k].ret) = calls[k].ret
            /\ RulesIdempotent(calls[k].arg)

(***************************************************************************)
(* Sorting in two threads                                                  *)
(***************************************************************************)

\* C25: when two runs that sort with key_supplied execute at the same time
\* in one process, with the steps of their calls of key_supplied
\* interleaved, each run gets strictly increasing keys in the order of its
\* own calls, and returns its items in the order they were supplied in.
C25_ConcurrentRuns ==
    \A t \in DOMAIN threads :
        /\ \A i, j \in 1..Len(threads[t].keys) :
              i < j => threads[t].keys[i].n < threads[t].keys[j].n
        /\ threads[t].at = "sorted" => threads[t].sorted = threads[t].names

(***************************************************************************)
(* Alternate numbers                                                       *)
(***************************************************************************)

\* the positions of the attributes osisID, sID and eID of the verses of a
\* text
VerseAttributePositions(text) ==
    {p \in 1..Len(text) :
        \/ text[p] \in {"<verse osisID=", "<verse eID="}
        \/ /\ text[p] = " sID="
           /\ \E o \in 1..p : /\ text[o] = "<verse osisID="
                              /\ \A k \in o..p : text[k] # "/>"}

\* the identifiers of an attribute value, which blanks separate
Identifiers(value) == split(value, " ")

\* the sID of the chapter that is open at p, or <<>>
ChapterSID(text, p) ==
    LET C == {c \in 1..p : text[c] = "<chapter osisID="}
    IN  IF C = {} THEN <<>>
        ELSE LET c == CHOOSE c \in C : \A d \in C : d <= c
             IN  ValueAt(text, FirstFrom(LAMBDA u, x : u[x] = " sID=", text, c))

\* C26: in the text process_osisIDs returns, every identifier of a verse of
\* a chapter is book.chapter.verse, where book.chapter is the sID of the
\* opening milestone of the chapter, a single chapter number: no
\* identifier of a verse holds a blank, also when the chapter has an
\* alternate chapter number.
C26_ChapterNumber ==
    Ret("process_osisIDs") # NoText =>
        LET ret == Ret("process_osisIDs")
        IN  \A p \in VerseAttributePositions(ret) :
                LET sid == ChapterSID(ret, p)
                    ids == Identifiers(ValueAt(ret, p))
                IN  sid # <<>> =>
                        /\ Len(sid) = 3
                        /\ \A k \in 1..Len(ids) :
                              /\ Len(ids[k]) > 4
                              /\ SubSeq(ids[k], 1, 4) = sid \o <<".">>

\* C27: in the text process_osisIDs returns, no osisID, sID or eID of a
\* verse holds a range a-b or a series n1,n2 that is not expanded, also
\* when the verse has an alternate verse number and also when an element
\* of a series is a range.
C27_AllExpanded ==
    Ret("process_osisIDs") # NoText =>
        LET ret == Ret("process_osisIDs")
        IN  \A p \in VerseAttributePositions(ret) :
                /\ ~Has(ValueAt(ret, p), "-")
                /\ ~Has(ValueAt(ret, p), ",")

(***************************************************************************)
(* Line groups                                                             *)
(***************************************************************************)

\* the text the pass has received (NoText: it has not been called)
Arg(pass) ==
    LET K == {k \in 1..Len(calls) : calls[k].pass = pass}
    IN  IF K = {} THEN NoText ELSE calls[CHOOSE k \in K : TRUE].arg

\* the number of line groups that are open after text[p]
OpenGroups(text, p) ==
    Cardinality({k \in 1..p : text[k] = "<lg>"})
    - Cardinality({k \in 1..p : text[k] = "</lg>"})

\* the ends of line groups that the start of a line group follows at once
Splits(text) ==
    {k \in 1..(Len(text) - 1) : text[k] = "</lg>" /\ text[k + 1] = "<lg>"}

Breaks(text) == {k \in 1..Len(text) : text[k] = "<lb type=\"x-p\"/>"}

\* C28: in the text cvt_poetry returns, every poetic line <l ...> is in
\* exactly one line group <lg>; the poetic lines that no scope marker of a
\* book, chapter, paragraph, title or section separates are in one line
\* group, or in line groups that follow one another at once, one more for
\* each blank-line break among them; and no break is in a line group.
C28_LineGroups ==
    Ret("cvt_poetry") # NoText =>
        LET ret == Ret("cvt_poetry")
            arg == Arg("cvt_poetry")
        IN  /\ \A p \in 1..Len(ret) :
                  /\ OpenGroups(ret, p) \in {0, 1}
                  /\ ret[p] \in LineTags => OpenGroups(ret, p) = 1
                  /\ ret[p] = "<lb type=\"x-p\"/>" => OpenGroups(ret, p) = 0
            /\ OpenGroups(ret, Len(ret)) = 0
            /\ \A p, q \in 1..Len(ret) :
                  /\ p < q /\ ret[p] \in LineTags /\ ret[q] \in LineTags
                  /\ \A k \in p..q : ret[k] \notin ScopeMarkers
                  => \A k \in p..q : ret[k] = "</lg>" => k \in Splits(ret)
            /\ Cardinality(Splits(ret))
                   = Cardinality(Breaks(arg)) - Cardinality(Breaks(ret))
            /\ ~HasAny(ret, DOMAIN LineOpen)

\* a run of three poetic lines with a break before the third: the first
\* two lines are in one line group, the third in the next
C28_Witness ==
    /\ Ret("cvt_poetry") # NoText
    /\ Cardinality(Breaks(Arg("cvt_poetry"))) = 1
    /\ \E k \in Splits(Ret("cvt_poetry")) :
          /\ Cardinality({p \in 1..k : Ret("cvt_poetry")[p] \in LineTags}) = 2
          /\ OpenGroups(Ret("cvt_poetry"), k - 1) = 1
          /\ Cardinality({p \in 1..k : Ret("cvt_poetry")[p] = "<lg>"}) = 1
          /\ Ret("cvt_poetry")[k + 2] \in LineTags

(***************************************************************************)
(* Paragraphs                                                              *)
(***************************************************************************)

\* the paragraph directives of the documentation of cvt_paragraphs that are
\* lexemes of the documents
ParagraphDirectives == {"\\p", "\\m", "\\cls", "\\b"}

\* the text holds between open and close, once for each directive d of arg,
\* what follows the directive in arg
Rewritten(arg, ret, d, open, close) ==
    /\ Count(ret, open) = Count(arg, d)
    /\ \A k \in 1..Len(ret) :
          ret[k] = open =>
              \E e \in (k + 1)..Len(ret) :
                  /\ ret[e] = close
                  /\ ~HasAny(Slice(ret, k + 1, e - 1), {open, close})
                  /\ Has(Slice(ret, k + 1, e - 1), "w")

\* C29: cvt_paragraphs converts every paragraph directive that its
\* documentation lists: the text it returns holds none of them; each \cls
\* with its text has become a closer element that holds the text, and each
\* \m a paragraph of type x-noindent.
C29_ParagraphDirectives ==
    Ret("cvt_paragraphs") # NoText =>
        LET ret == Ret("cvt_paragraphs")
            arg == Arg("cvt_paragraphs")
        IN  /\ ~HasAny(ret, ParagraphDirectives)
            /\ Rewritten(arg, ret, "\\cls", "<closer>", "U+FDD3")
            /\ Rewritten(arg, ret, "\\m", "<p type=\"x-noindent\">", "U+FDD3")

\* the part of C29 that holds of the modelled documents: \p, \m and \b are
\* converted, \m to a paragraph of type x-noindent
C29_NoIndent ==
    Ret("cvt_paragraphs") # NoText =>
        LET ret == Ret("cvt_paragraphs")
            arg == Arg("cvt_paragraphs")
        IN  /\ ~HasAny(ret, ParagraphDirectives \ {"\\cls"})
            /\ Rewritten(arg, ret, "\\m", "<p type=\"x-noindent\">", "U+FDD3")
            /\ Count(ret, "<lb type=\"x-p\"/>") = Count(arg, "\\b")

\* what does not hold: a \cls of the text received is in the text returned
C29_ClosingKept ==
    Ret("cvt_paragraphs") # NoText =>
        /\ Count(Ret("cvt_paragraphs"), "\\cls") = Count(Arg("cvt_paragraphs"), "\\cls")
        /\ ~Has(Ret("cvt_paragraphs"), "<closer>")

(***************************************************************************)
(* Special text                                                            *)
(***************************************************************************)

\* the start tags and the end tags of the elements cvt_special_text writes
StartTags ==
    {special_texts[n][3] : n \in DOMAIN special_texts} \cup {special_text_dc[3]}

ElementEndTags == {special_texts[n][4] : n \in DOMAIN special_texts}

\* the text without the whitespace that follows a paired directive
Unspaced(text) ==
    Cat([k \in 1..Len(text) |->
            IF /\ IsSpace(text[k])
               /\ \E j \in 1..(k - 1) :
                     /\ text[j] \in PairedDirectives
                     /\ \A n \in (j + 1)..k : IsSpace(text[n])
            THEN <<>> ELSE <<text[k]>>])

\* ret is arg with a start tag for each paired directive and an end tag for
\* each closing form, and every other lexeme as it is, in its place
Elements(arg, ret) ==
    /\ Len(ret) = Len(arg)
    /\ \A k \in 1..Len(arg) :
          IF arg[k] \in PairedDirectives THEN ret[k] \in StartTags
          ELSE IF arg[k] \in ClosingDirectives THEN ret[k] \in ElementEndTags
          ELSE ret[k] = arg[k]

\* C30: cvt_special_text replaces every paired directive (\add, \wj, \nd,
\* \pn, \qt, \sig, \ord, \tl, \bk, \k, \dc, \sls, each with its closing
\* form) by one element that holds the text between the directive and its
\* closing form as it is, once, and leaves the text outside the pair as it
\* is.
C30_SpecialText ==
    Ret("cvt_special_text") # NoText =>
        Elements(Unspaced(Arg("cvt_special_text")), Ret("cvt_special_text"))

\* the part of C30 that holds of the modelled documents: the directives
\* other than \sls
C30_AllButSls ==
    /\ Ret("cvt_special_text") # NoText
    /\ ~Has(Arg("cvt_special_text"), "\\sls")
    => Elements(Unspaced(Arg("cvt_special_text")), Ret("cvt_special_text"))

\* what does not hold: the element written for \sls holds '/1'
C30_SlsText ==
    Ret("cvt_special_text") # NoText =>
        Count(Ret("cvt_special_text"), "/1") = Count(Arg("cvt_special_text"), "\\sls")

=============================================================================
